---- MODULE Spec2Model ----
(***************************************************************************)
(* Model of the native USB core of ubertooth-one-connector:                *)
(*   crates/usb/src/device.rs    UbertoothDevice  (Device Manager)         *)
(*   crates/usb/src/commands.rs  UbertoothCommands (Command Executor)      *)
(*   crates/usb/src/protocol.rs  packet codec                              *)
(* Tasks call the eight exposed commands concurrently; every command       *)
(* takes the tokio mutex around the device before it touches it.  The      *)
(* USB transport (rusb) is the environment: each transfer's outcome is     *)
(* chosen nondeterministically.                                            *)
(***************************************************************************)
EXTENDS Integers, Sequences, FiniteSets, TLC

(***************************************************************************)
(* Bounds of the model.                                                    *)
(***************************************************************************)
\* largest number of matching USB devices the enumeration reports
MaxDevices == 1
\* largest device_index a caller passes
MaxIndex == 1
\* largest duration_sec a caller passes to btle_scan
MaxDuration == 1
\* largest number of capture-loop reads that complete within one clock tick
MaxFastReads == 1
\* largest number of advertising-data bytes behind the advertiser address
MaxAdLen == 4

Tasks == {1, 2}

(***************************************************************************)
(* constants.rs                                                            *)
(***************************************************************************)
CMD_PING == 0
CMD_RESET == 1
CMD_GET_BOARD_ID == 6
CMD_SET_MODULATION == 7
CMD_SET_CHANNEL == 12
CMD_GET_CHANNEL == 13
CMD_SET_POWER == 14
CMD_SPECAN == 27
CMD_STOP == 48
CMD_GET_REV_NUM == 49
CMD_GET_COMPILE_INFO == 50
CMD_GET_SERIAL == 51
CMD_SET_SQUELCH == 52
CMD_BTLE_SET_ACCESS_ADDRESS == 54
CMD_BTLE_SNIFF_AA == 59
CMD_GET_API_VERSION == 62
MOD_BT_BASIC_RATE == 0
MOD_BT_LOW_ENERGY == 1
MOD_80211_FHSS == 2
BLE_CHANNEL_MAX == 39
TX_POWER_MIN == -30
TX_POWER_MAX == 20
BOARD_ID_UBERTOOTH_ZERO == 0
BOARD_ID_UBERTOOTH_ONE == 1
BOARD_ID_TC13BADGE == 2
PKT_TYPE_LE_PACKET == 2

(***************************************************************************)
(* serde_json values as the commands read them.                            *)
(***************************************************************************)
JNull == [t |-> "null", i |-> 0, s |-> "", b |-> FALSE]
JInt(n) == [t |-> "int", i |-> n, s |-> "", b |-> FALSE]
JStr(x) == [t |-> "str", i |-> 0, s |-> x, b |-> FALSE]
JBool(x) == [t |-> "bool", i |-> 0, s |-> "", b |-> x]

None == [some |-> FALSE, v |-> 0]
Some(x) == [some |-> TRUE, v |-> x]

\* Value::as_u64: Some only for a non-negative integer number
as_u64(j) == IF j.t = "int" /\ j.i >= 0 THEN Some(j.i) ELSE None
\* Value::as_i64: Some for any integer number (within i64, as all inputs here)
as_i64(j) == IF j.t = "int" THEN Some(j.i) ELSE None
unwrap_or(o, d) == IF o.some THEN o.v ELSE d

\* Rust `as` casts between integer widths (wrapping)
as_u8(n) == n % 256
as_u16(n) == n % 65536
as_i8(n) == ((n + 128) % 256) - 128

(***************************************************************************)
(* error.rs                                                                *)
(***************************************************************************)
\* outcomes of one rusb transfer; "Pipe" stands for every rusb error other
\* than Timeout, NoDevice and Io
RusbOutcomes == {"Ok", "Timeout", "NoDevice", "Io", "Pipe"}

\* impl From<UsbError> for UbertoothError
into(e) ==
    CASE e = "DeviceNotFound" -> "DeviceNotFound"
      [] e = "AlreadyOpen" -> "AlreadyConnected"
      [] e = "NotOpen" -> "NotConnected"
      [] e = "PermissionDenied" -> "PermissionDenied"
      [] e = "InvalidParameter" -> "InvalidParameter"
      [] e = "Io" -> "Io"
      [] e = "Timeout" -> "UsbError(Timeout)"
      [] e = "Disconnected" -> "UsbError(Disconnected)"
      [] e = "ControlTransferFailed" -> "UsbError(ControlTransferFailed)"
      [] e = "BulkTransferFailed" -> "UsbError(BulkTransferFailed)"
      [] e = "InvalidPacket" -> "UsbError(InvalidPacket)"
      [] e = "UsbLibrary" -> "UsbError(UsbLibrary)"
      [] OTHER -> "UsbError(other)"

(***************************************************************************)
(* device.rs: the Device Manager.  `h` is the handle field ("None" or      *)
(* "Some"); `out` is the outcome rusb gives the transfer.  Each primitive  *)
(* returns its Result and the transfers it put on the bus.                 *)
(***************************************************************************)
\* one transfer as it went over the bus: endpoint, setup fields, the bytes
\* sent or received, and the Result the primitive made of rusb's outcome
Xfer(ep, req, value, index, data, res) ==
    [ep |-> ep, req |-> req, value |-> value, index |-> index, data |-> data,
     res |-> res]
Ret(res, xfer) == [res |-> res, xfer |-> xfer]

\* control_transfer that goes to the bus without looking at the handle
control_transfer_unchecked(h, request, value, index, data, out) ==
    LET res == CASE out = "Ok" -> "Ok"
                 [] out = "Timeout" -> "Timeout"
                 [] out \in {"NoDevice", "Io"} -> "Disconnected"
                 [] OTHER -> "ControlTransferFailed"
    IN  Ret(res, <<Xfer("ctrl_out", request, value, index, data, res)>>)

control_transfer(h, request, value, index, data, out) ==
    LET res == CASE out = "Ok" -> "Ok"
                 [] out = "Timeout" -> "Timeout"
                 [] out \in {"NoDevice", "Io"} -> "Disconnected"
                 [] OTHER -> "ControlTransferFailed"
    IN  IF h = "None" THEN Ret("NotOpen", <<>>)
        ELSE Ret(res, <<Xfer("ctrl_out", request, value, index, data, res)>>)

control_transfer_read(h, request, value, index, out) ==
    LET res == CASE out = "Ok" -> "Ok"
                 [] out = "Timeout" -> "Timeout"
                 [] out \in {"NoDevice", "Io"} -> "Disconnected"
                 [] OTHER -> "ControlTransferFailed"
    IN  IF h = "None" THEN Ret("NotOpen", <<>>)
        ELSE Ret(res, <<Xfer("ctrl_in", request, value, index, <<>>, res)>>)

\* `incoming` is what the device has to send: the bytes an Ok read puts
\* into the caller's buffer
bulk_read(h, out, incoming) ==
    LET res == CASE out = "Ok" -> "Ok"
                 [] out = "Timeout" -> "Timeout"
                 [] out \in {"NoDevice", "Io"} -> "Disconnected"
                 [] OTHER -> "BulkTransferFailed"
    IN  IF h = "None" THEN Ret("NotOpen", <<>>)
        ELSE Ret(res, <<Xfer("bulk_in", 0, 0, 0,
                             IF res = "Ok" THEN incoming ELSE <<>>, res)>>)

bulk_write(h, data, out) ==
    LET res == CASE out = "Ok" -> "Ok"
                 [] out = "Timeout" -> "Timeout"
                 [] out \in {"NoDevice", "Io"} -> "Disconnected"
                 [] OTHER -> "BulkTransferFailed"
    IN  IF h = "None" THEN Ret("NotOpen", <<>>)
        ELSE Ret(res, <<Xfer("bulk_out", 0, 0, 0, data, res)>>)

ping(h, out) == control_transfer(h, CMD_PING, 0, 0, <<>>, out)
reset(h, out) == control_transfer(h, CMD_RESET, 0, 0, <<>>, out)
set_channel(h, channel, out) == control_transfer(h, CMD_SET_CHANNEL, channel, 0, <<>>, out)
get_channel(h, out) == control_transfer_read(h, CMD_GET_CHANNEL, 0, 0, out)
set_modulation(h, modulation, out) == control_transfer(h, CMD_SET_MODULATION, modulation, 0, <<>>, out)
set_squelch(h, squelch, out) == control_transfer(h, CMD_SET_SQUELCH, as_u16(squelch), 0, <<>>, out)
stop(h, out) == control_transfer(h, CMD_STOP, 0, 0, <<>>, out)

\* set_power that checks the range only after the transfer was made
set_power_checks_late(h, power_dbm, out) ==
    LET r == control_transfer(h, CMD_SET_POWER, as_u16(power_dbm), 0, <<>>, out)
    IN  IF power_dbm < TX_POWER_MIN \/ power_dbm > TX_POWER_MAX
        THEN Ret("InvalidParameter", r.xfer)
        ELSE r

set_power(h, power_dbm, out) ==
    IF power_dbm < TX_POWER_MIN \/ power_dbm > TX_POWER_MAX
    THEN Ret("InvalidParameter", <<>>)
    ELSE control_transfer(h, CMD_SET_POWER, as_u16(power_dbm), 0, <<>>, out)

get_board_id(h, out) == control_transfer_read(h, CMD_GET_BOARD_ID, 0, 0, out)
get_firmware_version(h, out) == control_transfer_read(h, CMD_GET_REV_NUM, 0, 0, out)
get_api_version(h, out) == control_transfer_read(h, CMD_GET_API_VERSION, 0, 0, out)
get_serial_number(h, out) == control_transfer_read(h, CMD_GET_SERIAL, 0, 0, out)
get_compile_info(h, out) == control_transfer_read(h, CMD_GET_COMPILE_INFO, 0, 0, out)

\* what the attached board answers to the identity reads
BoardAnswer == [board_id |-> 1, firmware_version |-> "2020-12-R1",
                api_version |-> "1.0.6", serial_number |-> "0123",
                compile_info |-> "gcc"]

NoInfo == [present |-> FALSE, board_id |-> 0, firmware_version |-> "",
           api_version |-> "", serial_number |-> "", compile_info |-> ""]

\* DeviceInfo::board_name
board_name(info) ==
    CASE info.board_id = BOARD_ID_UBERTOOTH_ZERO -> "Ubertooth Zero"
      [] info.board_id = BOARD_ID_UBERTOOTH_ONE -> "Ubertooth One"
      [] info.board_id = BOARD_ID_TC13BADGE -> "TC13 Badge"
      [] OTHER -> "Unknown"

\* refresh_device_info in which a failed API-version read is fatal too
refresh_device_info_api_required(h, info, outs, apiLen) ==
    LET b == get_board_id(h, outs[1])
        f == get_firmware_version(h, outs[2])
        a == get_api_version(h, outs[3])
        s == get_serial_number(h, outs[4])
        c == get_compile_info(h, outs[5])
    IN  IF b.res # "Ok" THEN [res |-> b.res, info |-> info, xfer |-> b.xfer]
        ELSE IF f.res # "Ok" THEN [res |-> f.res, info |-> info, xfer |-> b.xfer \o f.xfer]
        ELSE IF a.res # "Ok"
             THEN [res |-> a.res, info |-> info, xfer |-> b.xfer \o f.xfer \o a.xfer]
        ELSE [res |-> "Ok",
              info |-> [present |-> TRUE,
                        board_id |-> BoardAnswer.board_id,
                        firmware_version |-> BoardAnswer.firmware_version,
                        api_version |-> IF apiLen >= 4
                                        THEN BoardAnswer.api_version ELSE "unknown",
                        serial_number |-> IF s.res = "Ok"
                                          THEN BoardAnswer.serial_number ELSE "unknown",
                        compile_info |-> IF c.res = "Ok"
                                         THEN BoardAnswer.compile_info ELSE "unknown"],
              xfer |-> b.xfer \o f.xfer \o a.xfer \o s.xfer \o c.xfer]

\* refresh_device_info: outs[1..5] are the outcomes of the five identity
\* reads, apiLen the number of bytes the API-version read returns.
\* Returns the Result, the new device_info field and the transfers issued.
refresh_device_info(h, info, outs, apiLen) ==
    LET b == get_board_id(h, outs[1])
        f == get_firmware_version(h, outs[2])
        a == get_api_version(h, outs[3])
        s == get_serial_number(h, outs[4])
        c == get_compile_info(h, outs[5])
    IN  IF b.res # "Ok" THEN [res |-> b.res, info |-> info, xfer |-> b.xfer]
        ELSE IF f.res # "Ok" THEN [res |-> f.res, info |-> info, xfer |-> b.xfer \o f.xfer]
        ELSE [res |-> "Ok",
              info |-> [present |-> TRUE,
                        board_id |-> BoardAnswer.board_id,
                        firmware_version |-> BoardAnswer.firmware_version,
                        api_version |-> IF a.res = "Ok" /\ apiLen >= 4
                                        THEN BoardAnswer.api_version ELSE "unknown",
                        serial_number |-> IF s.res = "Ok"
                                          THEN BoardAnswer.serial_number ELSE "unknown",
                        compile_info |-> IF c.res = "Ok"
                                         THEN BoardAnswer.compile_info ELSE "unknown"],
              xfer |-> b.xfer \o f.xfer \o a.xfer \o s.xfer \o c.xfer]

\* what the OS answers while connect opens the device:
\*   ndev   number of devices list_devices finds
\*   open   "Ok" | "Access" | "Other"            (device.open)
\*   kdrv   "none" | "detached" | "detach_failed" (kernel driver, Linux)
\*   claim  "Ok" | "Failed"                       (claim_interface)
OsAnswers == [ndev : 0..MaxDevices, open : {"Ok", "Access", "Other"},
              kdrv : {"none", "detached", "detach_failed"},
              claim : {"Ok", "Failed"}]

\* a call into the OS's USB stack that is not a transfer, kept in the same trace
OsCall(name) == [ep |-> name, req |-> 0, value |-> 0, index |-> 0, data |-> <<>>,
                 res |-> "Ok"]
UsbEndpoints == {"ctrl_out", "ctrl_in", "bulk_in", "bulk_out"}
IsTransfer(x) == x.ep \in UsbEndpoints
transfers(log) == SelectSeq(log, IsTransfer)

\* UbertoothDevice::connect from the enumeration on (no handle is open)
connect_open(h, info, device_index, os, outs, apiLen) ==
    LET listed == <<OsCall("list_devices")>>
        opened == listed \o <<OsCall("open")>>
        probed == opened \o <<OsCall("kernel_driver_active")>>
        detached == IF os.kdrv = "none" THEN probed
                    ELSE probed \o <<OsCall("detach_kernel_driver")>>
        claimed == detached \o <<OsCall("claim_interface")>>
        fail(e, trace) == [res |-> e, handle |-> h, info |-> info, xfer |-> trace]
    IN  IF os.ndev = 0 THEN fail("DeviceNotFound", listed)
        ELSE IF device_index >= os.ndev THEN fail("DeviceNotFound", listed)
        ELSE IF os.open = "Access" THEN fail("PermissionDenied", opened)
        ELSE IF os.open # "Ok" THEN fail("UsbLibrary", opened)
        ELSE IF os.kdrv = "detach_failed" THEN fail("UsbLibrary", detached)
        ELSE IF os.claim # "Ok" THEN fail("UsbLibrary", claimed)
        ELSE LET r == refresh_device_info("Some", info, outs, apiLen)
             IN  [res |-> r.res, handle |-> "Some", info |-> r.info,
                  xfer |-> claimed \o r.xfer]

\* connect without its already-connected check
connect_unguarded(h, info, device_index, os, outs, apiLen) ==
    connect_open(h, info, device_index, os, outs, apiLen)

\* UbertoothDevice::connect
connect(h, info, device_index, os, outs, apiLen) ==
    IF h = "Some"
    THEN [res |-> "AlreadyOpen", handle |-> h, info |-> info, xfer |-> <<>>]
    ELSE connect_open(h, info, device_index, os, outs, apiLen)

\* disconnect that drops the handle but keeps the cached DeviceInfo
disconnect_keeps_info(h, info) ==
    [res |-> "Ok", handle |-> "None", info |-> info,
     xfer |-> IF h = "Some"
              THEN <<OsCall("release_interface"), OsCall("attach_kernel_driver")>>
              ELSE <<>>]

\* UbertoothDevice::disconnect
disconnect(h, info) ==
    [res |-> "Ok", handle |-> "None", info |-> NoInfo,
     xfer |-> IF h = "Some"
              THEN <<OsCall("release_interface"), OsCall("attach_kernel_driver")>>
              ELSE <<>>]

is_connected(h) == h = "Some"

(***************************************************************************)
(* protocol.rs: the packet codec.  A buffer is a sequence of bytes; Rust   *)
(* index i is TLA+ index i+1.                                              *)
(***************************************************************************)
Slice(s, from, to) == SubSeq(s, from + 1, to)          \* s[from..to]

\* a u32 is kept as its two 16-bit halves
U32(hi, lo) == [hi |-> hi, lo |-> lo]
u32_from_le_bytes(b) == U32(b[3] + 256 * b[4], b[1] + 256 * b[2])
u32_to_le_bytes(w) == <<w.lo % 256, w.lo \div 256, w.hi % 256, w.hi \div 256>>

BLE_ADV_ACCESS_ADDRESS == U32(36489, 48854)             \* 0x8E89BED6

\* UsbPacketHeader::from_bytes
UsbPacketHeader_from_bytes(data) ==
    IF Len(data) < 14 THEN [ok |-> FALSE, err |-> "InvalidPacket"]
    ELSE [ok |-> TRUE,
          pkt_type |-> data[1],
          status |-> data[2],
          channel |-> data[3],
          clock |-> u32_from_le_bytes(Slice(data, 3, 7)),
          rssi |-> as_i8(data[8]),
          reserved |-> Slice(data, 8, 14)]

\* to_bytes writing the clock most significant byte first
UsbPacketHeader_to_bytes_be(h) ==
    <<h.pkt_type, h.status, h.channel>>
    \o <<h.clock.hi \div 256, h.clock.hi % 256, h.clock.lo \div 256, h.clock.lo % 256>>
    \o <<as_u8(h.rssi)>> \o h.reserved

\* UsbPacketHeader::to_bytes
UsbPacketHeader_to_bytes(h) ==
    <<h.pkt_type, h.status, h.channel>> \o u32_to_le_bytes(h.clock)
    \o <<as_u8(h.rssi)>> \o h.reserved

\* UsbPacket::from_bytes
UsbPacket_from_bytes(data) ==
    IF Len(data) < 14 THEN [ok |-> FALSE, err |-> "InvalidPacket"]
    ELSE [ok |-> TRUE,
          header |-> UsbPacketHeader_from_bytes(Slice(data, 0, 14)),
          payload |-> Slice(data, 14, Len(data))]

\* UsbPacket::is_ble
is_ble(pkt) == pkt.header.pkt_type = PKT_TYPE_LE_PACKET

\* from_usb_packet asking for 9 payload bytes where the code asks for 10
BlePacket_from_usb_packet_min9(pkt) ==
    LET payload == pkt.payload
    IN  IF ~is_ble(pkt) THEN [ok |-> FALSE, err |-> "InvalidPacket"]
        ELSE IF Len(payload) < 9 THEN [ok |-> FALSE, err |-> "InvalidPacket"]
        ELSE LET length == payload[6]
                 payload_end == 6 + length
             IN  IF Len(payload) < payload_end + 3
                 THEN [ok |-> FALSE, err |-> "InvalidPacket"]
                 ELSE [ok |-> TRUE,
                       access_address |-> u32_from_le_bytes(Slice(payload, 0, 4)),
                       pdu_header |-> payload[5],
                       length |-> length,
                       payload |-> Slice(payload, 6, payload_end),
                       crc |-> Slice(payload, payload_end, payload_end + 3),
                       rssi |-> pkt.header.rssi,
                       channel |-> pkt.header.channel,
                       timestamp |-> pkt.header.clock]

\* BlePacket::from_usb_packet
BlePacket_from_usb_packet(pkt) ==
    LET payload == pkt.payload
    IN  IF ~is_ble(pkt) THEN [ok |-> FALSE, err |-> "InvalidPacket"]
        ELSE IF Len(payload) < 10 THEN [ok |-> FALSE, err |-> "InvalidPacket"]
        ELSE LET length == payload[6]
                 payload_end == 6 + length
             IN  IF Len(payload) < payload_end + 3
                 THEN [ok |-> FALSE, err |-> "InvalidPacket"]
                 ELSE [ok |-> TRUE,
                       access_address |-> u32_from_le_bytes(Slice(payload, 0, 4)),
                       pdu_header |-> payload[5],
                       length |-> length,
                       payload |-> Slice(payload, 6, payload_end),
                       crc |-> Slice(payload, payload_end, payload_end + 3),
                       rssi |-> pkt.header.rssi,
                       channel |-> pkt.header.channel,
                       timestamp |-> pkt.header.clock]

NoAddr == [some |-> FALSE, v |-> <<>>]

\* BlePacket::advertiser_address
advertiser_address(ble) ==
    LET pdu_type == ble.pdu_header % 16
    IN  IF pdu_type <= 6 /\ Len(ble.payload) >= 6
        THEN Some(Slice(ble.payload, 0, 6))
        ELSE NoAddr

\* String::from_utf8 accepts exactly the well-formed UTF-8 byte sequences
RECURSIVE is_utf8(_)
is_utf8(b) ==
    LET cont(i) == i <= Len(b) /\ b[i] >= 128 /\ b[i] <= 191
        in(i, lo, hi) == i <= Len(b) /\ b[i] >= lo /\ b[i] <= hi
    IN  IF b = <<>> THEN TRUE
        ELSE IF b[1] < 128 THEN is_utf8(Tail(b))
        ELSE IF b[1] >= 194 /\ b[1] <= 223
             THEN cont(2) /\ is_utf8(Slice(b, 2, Len(b)))
        ELSE IF b[1] >= 224 /\ b[1] <= 239
             THEN /\ CASE b[1] = 224 -> in(2, 160, 191)
                       [] b[1] = 237 -> in(2, 128, 159)
                       [] OTHER -> cont(2)
                  /\ cont(3)
                  /\ is_utf8(Slice(b, 3, Len(b)))
        ELSE IF b[1] >= 240 /\ b[1] <= 244
             THEN /\ CASE b[1] = 240 -> in(2, 144, 191)
                       [] b[1] = 244 -> in(2, 128, 143)
                       [] OTHER -> cont(2)
                  /\ cont(3) /\ cont(4)
                  /\ is_utf8(Slice(b, 4, Len(b)))
        ELSE FALSE

NoName == [some |-> FALSE, v |-> <<>>]

\* One pass through the while loop of BlePacket::device_name with the
\* cursor at byte `offset` of ad_data.  `kind` tells how the pass ends: "exit"
\* (the loop condition is false, or break), "return" (a name is returned) or
\* "continue" (the cursor moves to `offset`).  `read` is the set of Rust
\* indices of ad_data the pass reads.
ad_step(ad_data, offset) ==
    LET end(kind, off, name, read) ==
            [kind |-> kind, offset |-> off, name |-> name, read |-> read]
    IN  IF ~(offset < Len(ad_data)) THEN end("exit", offset, NoName, {})
        ELSE IF offset + 1 >= Len(ad_data) THEN end("exit", offset, NoName, {})
        ELSE LET length == ad_data[offset + 1]
                 ad_type == ad_data[offset + 2]
                 name_bytes == Slice(ad_data, offset + 2, offset + 1 + length)
             IN  IF length = 0 THEN end("exit", offset, NoName, {offset})
                 ELSE IF ad_type \in {8, 9} /\ offset + 2 + length - 1 <= Len(ad_data)
                      THEN IF is_utf8(name_bytes)
                           THEN end("return", offset, Some(name_bytes),
                                    offset..(offset + length))
                           ELSE end("continue", offset + 1 + length, NoName,
                                    offset..(offset + length))
                      ELSE end("continue", offset + 1 + length, NoName,
                               {offset, offset + 1})

\* the while loop of BlePacket::device_name, from byte offset `offset`
RECURSIVE ad_walk(_, _)
ad_walk(ad_data, offset) ==
    LET pass == ad_step(ad_data, offset)
    IN  IF pass.kind = "continue" THEN ad_walk(ad_data, pass.offset)
        ELSE pass.name

\* BlePacket::device_name
device_name(ble) ==
    IF Len(ble.payload) < 6 THEN NoName
    ELSE ad_walk(Slice(ble.payload, 6, Len(ble.payload)), 0)

\* {:02X}: a byte as two upper-case hexadecimal digits
HexDigits == <<"0", "1", "2", "3", "4", "5", "6", "7",
               "8", "9", "A", "B", "C", "D", "E", "F">>
hex02X(b) == <<HexDigits[(b \div 16) + 1], HexDigits[(b % 16) + 1]>>

\* the MAC string with the address bytes in the order they arrived
mac_format_wire_order(addr) ==
    hex02X(addr[1]) \o <<":">> \o hex02X(addr[2]) \o <<":">> \o hex02X(addr[3]) \o <<":">>
    \o hex02X(addr[4]) \o <<":">> \o hex02X(addr[5]) \o <<":">> \o hex02X(addr[6])

\* format!("{:02X}:{:02X}:{:02X}:{:02X}:{:02X}:{:02X}",
\*         addr[5], addr[4], addr[3], addr[2], addr[1], addr[0]):
\* the MAC string, as the sequence of its characters
mac_format(addr) ==
    hex02X(addr[6]) \o <<":">> \o hex02X(addr[5]) \o <<":">> \o hex02X(addr[4]) \o <<":">>
    \o hex02X(addr[3]) \o <<":">> \o hex02X(addr[2]) \o <<":">> \o hex02X(addr[1])

(***************************************************************************)
(* What the radio can deliver to one bulk read: well-formed and malformed  *)
(* frames.                                                                 *)
(***************************************************************************)
Header(pkt_type, channel, rssi_byte) ==
    <<pkt_type, 0, channel, 1, 0, 0, 0, rssi_byte, 0, 0, 0, 0, 0, 0>>
AdvAccessAddress == u32_to_le_bytes(BLE_ADV_ACCESS_ADDRESS)
AddrA == <<255, 238, 221, 204, 187, 170>>               \* AA:BB:CC:DD:EE:FF
AddrB == <<1, 2, 3, 4, 5, 6>>                           \* 06:05:04:03:02:01
NameFoo == <<4, 9, 70, 111, 111>>                       \* {length 4, type 0x09, "Foo"}
Unknown == <<85, 110, 107, 110, 111, 119, 110>>         \* "Unknown"

BleFrame(pdu_header, body) ==
    AdvAccessAddress \o <<pdu_header, Len(body)>> \o body \o <<17, 34, 51>>

\* what the five flush reads of btle_scan meet: nothing, or a stale frame
\* left in the USB buffer and then nothing
FlushQuiet == [i \in 1..5 |-> [out |-> "Timeout", data |-> <<>>]]
FlushStale == [FlushQuiet EXCEPT ![1] = [out |-> "Ok",
                                        data |-> Header(2, 37, 211) \o BleFrame(0, AddrB)]]

Packets ==
    { Header(2, 37, 196) \o BleFrame(0, AddrA \o NameFoo),  \* ADV_IND, A, "Foo", RSSI -60
      Header(2, 37, 211) \o BleFrame(0, AddrB),             \* ADV_IND, B, no name, RSSI -45
      Header(2, 37, 206) \o BleFrame(7, AddrA),             \* PDU type 7: no advertiser address
      Header(2, 37, 206) \o AdvAccessAddress \o <<0, 9>> \o AddrB \o <<17, 34, 51>>,
                                                            \* length runs past the buffer
      Header(0, 37, 0),                                     \* status packet
      <<2, 0, 37>> }                                        \* short read

(***************************************************************************)
(* commands.rs: the body of the capture loop's Ok(len) arm, applied to the *)
(* bytes one read returned.  `st` holds devices, total_packets, preview.   *)
(***************************************************************************)
\* division rounding toward minus infinity
floor_div(a, b) == a \div b

\* i32 division truncates toward zero
i32_div(a, b) == IF a >= 0 THEN a \div b ELSE -((-a) \div b)

NewStats == [address_type |-> "public", name |-> NoName,
             rssi_sum |-> 0, packet_count |-> 0, rssi_avg |-> 0]

update_stats(old, ble) ==
    LET cnt == old.packet_count + 1
        sum == old.rssi_sum + ble.rssi
        nm == IF ~old.name.some THEN device_name(ble) ELSE old.name
    IN  [address_type |-> old.address_type, name |-> nm,
         rssi_sum |-> sum, packet_count |-> cnt, rssi_avg |-> i32_div(sum, cnt)]

\* the loop body counting every BLE frame, decodable or not
process_packet_counts_frames(st, buffer) ==
    IF Len(buffer) < 14 THEN st
    ELSE LET usb_pkt == UsbPacket_from_bytes(buffer)
         IN  IF ~usb_pkt.ok \/ ~is_ble(usb_pkt) THEN st
             ELSE LET ble_pkt == BlePacket_from_usb_packet(usb_pkt)
                  IN  IF ~ble_pkt.ok THEN [st EXCEPT !.total_packets = @ + 1]
                      ELSE LET addr == advertiser_address(ble_pkt)
                               counted == [st EXCEPT !.total_packets = @ + 1]
                           IN  IF ~addr.some THEN counted
                               ELSE LET mac == mac_format(addr.v)
                                        old == IF mac \in DOMAIN st.devices
                                               THEN st.devices[mac] ELSE NewStats
                                        stats == update_stats(old, ble_pkt)
                                        line == [mac |-> mac,
                                                 name |-> IF stats.name.some
                                                          THEN stats.name.v ELSE Unknown,
                                                 rssi |-> ble_pkt.rssi]
                                    IN  [counted EXCEPT
                                           !.devices = [m \in DOMAIN st.devices \cup {mac} |->
                                                          IF m = mac THEN stats
                                                          ELSE st.devices[m]],
                                           !.preview = IF Len(@) < 5
                                                       THEN Append(@, line) ELSE @]

\* the loop body with a preview that is cut off one entry late
process_packet_previews_six(st, buffer) ==
    IF Len(buffer) < 14 THEN st
    ELSE LET usb_pkt == UsbPacket_from_bytes(buffer)
         IN  IF ~usb_pkt.ok \/ ~is_ble(usb_pkt) THEN st
             ELSE LET ble_pkt == BlePacket_from_usb_packet(usb_pkt)
                  IN  IF ~ble_pkt.ok THEN st
                      ELSE LET addr == advertiser_address(ble_pkt)
                               counted == [st EXCEPT !.total_packets = @ + 1]
                           IN  IF ~addr.some THEN counted
                               ELSE LET mac == mac_format(addr.v)
                                        old == IF mac \in DOMAIN st.devices
                                               THEN st.devices[mac] ELSE NewStats
                                        stats == update_stats(old, ble_pkt)
                                        line == [mac |-> mac,
                                                 name |-> IF stats.name.some
                                                          THEN stats.name.v ELSE Unknown,
                                                 rssi |-> ble_pkt.rssi]
                                    IN  [counted EXCEPT
                                           !.devices = [m \in DOMAIN st.devices \cup {mac} |->
                                                          IF m = mac THEN stats
                                                          ELSE st.devices[m]],
                                           !.preview = IF Len(@) <= 5
                                                       THEN Append(@, line) ELSE @]

\* the loop body counting a packet only once it has an advertiser address
process_packet_counts_addressed(st, buffer) ==
    IF Len(buffer) < 14 THEN st
    ELSE LET usb_pkt == UsbPacket_from_bytes(buffer)
         IN  IF ~usb_pkt.ok \/ ~is_ble(usb_pkt) THEN st
             ELSE LET ble_pkt == BlePacket_from_usb_packet(usb_pkt)
                  IN  IF ~ble_pkt.ok THEN st
                      ELSE LET addr == advertiser_address(ble_pkt)
                               counted == [st EXCEPT !.total_packets = @ + 1]
                           IN  IF ~addr.some THEN st
                               ELSE LET mac == mac_format(addr.v)
                                        old == IF mac \in DOMAIN st.devices
                                               THEN st.devices[mac] ELSE NewStats
                                        stats == update_stats(old, ble_pkt)
                                        line == [mac |-> mac,
                                                 name |-> IF stats.name.some
                                                          THEN stats.name.v ELSE Unknown,
                                                 rssi |-> ble_pkt.rssi]
                                    IN  [counted EXCEPT
                                           !.devices = [m \in DOMAIN st.devices \cup {mac} |->
                                                          IF m = mac THEN stats
                                                          ELSE st.devices[m]],
                                           !.preview = IF Len(@) < 5
                                                       THEN Append(@, line) ELSE @]

process_packet(st, buffer) ==
    IF Len(buffer) < 14 THEN st
    ELSE LET usb_pkt == UsbPacket_from_bytes(buffer)
         IN  IF ~usb_pkt.ok \/ ~is_ble(usb_pkt) THEN st
             ELSE LET ble_pkt == BlePacket_from_usb_packet(usb_pkt)
                  IN  IF ~ble_pkt.ok THEN st
                      ELSE LET addr == advertiser_address(ble_pkt)
                               counted == [st EXCEPT !.total_packets = @ + 1]
                           IN  IF ~addr.some THEN counted
                               ELSE LET mac == mac_format(addr.v)
                                        old == IF mac \in DOMAIN st.devices
                                               THEN st.devices[mac] ELSE NewStats
                                        stats == update_stats(old, ble_pkt)
                                        line == [mac |-> mac,
                                                 name |-> IF stats.name.some
                                                          THEN stats.name.v ELSE Unknown,
                                                 rssi |-> ble_pkt.rssi]
                                    IN  [counted EXCEPT
                                           !.devices = [m \in DOMAIN st.devices \cup {mac} |->
                                                          IF m = mac THEN stats
                                                          ELSE st.devices[m]],
                                           !.preview = IF Len(@) < 5
                                                       THEN Append(@, line) ELSE @]

(***************************************************************************)
(* The state.                                                              *)
(***************************************************************************)
VARIABLES
    handle,        \* UbertoothDevice.handle: "None" or "Some"
    device_info,   \* UbertoothDevice.device_info: NoInfo or a DeviceInfo
    lock,          \* holder of the tokio Mutex around the device, 0 when free
    pc,            \* where each task is inside its command
    cmd,           \* the command each task is running or ran last: method and params
    result,        \* what each task's last command returned
    xlog,          \* the transfers each task's current or last command put on the bus
    scan,          \* locals of scan_ble_packets of each task
    python_fallback, \* RustUsbBackend.python_fallback: "None" or "Some"
    reply,         \* what RustUsbBackend::call returned to each task, and which backend answered
    codec          \* a value handed to the packet codec on its own, and what the codec made of it

vars == <<handle, device_info, lock, pc, cmd, result, xlog, scan, python_fallback, reply,
          codec>>

NoParams == [device_index |-> JNull, channel |-> JNull, modulation |-> JNull,
             power_dbm |-> JNull, duration_sec |-> JNull, save_pcap |-> JNull,
             low_frequency_mhz |-> JNull, high_frequency_mhz |-> JNull,
             prim |-> JNull]

NoJson == [none |-> TRUE]
NoResult == [kind |-> "None", err |-> "", json |-> NoJson]
Ok(json) == [kind |-> "Ok", err |-> "", json |-> json]
Err(e) == [kind |-> "Err", err |-> e, json |-> NoJson]
Panic == [kind |-> "Panic", err |-> "called Option::unwrap() on a None value", json |-> NoJson]

\* codec: `op` names the codec function under test, `in` its argument,
\* `out` its value once it was applied
NoCodec == [op |-> "none", in |-> <<>>, out |-> <<>>, done |-> FALSE]

\* what call() hands back: the Result and the backend that produced it
Reply(by, res) == [by |-> by, res |-> res]
NoReply == Reply("none", NoResult)

\* the result of the bulk read the match of the capture loop is working on
NoArm == [res |-> "none", buffer |-> <<>>]

\* elapsed: whole seconds on the clock since start_time; fast: reads that
\* completed since the clock last advanced; broke: the loop was left by
\* `break`; arm: the read result whose match arm is running; channel: the
\* channel the scan was called for; radio: what the radio is doing for this
\* scan, "idle" before its sniff command, then "own" while it sniffs as the
\* scan's setup left it, "foreign" once another caller has retuned it or
\* started it again, "off" once another caller has stopped it
NoScan == [elapsed |-> 0, fast |-> 0, broke |-> FALSE, arm |-> NoArm,
           devices |-> <<>>, total_packets |-> 0, preview |-> <<>>,
           channel |-> 0, radio |-> "idle"]

Init ==
    /\ handle = "None"
    /\ device_info = NoInfo
    /\ lock = 0
    /\ pc = [t \in Tasks |-> "idle"]
    /\ cmd = [t \in Tasks |-> [method |-> "none", params |-> NoParams]]
    /\ result = [t \in Tasks |-> NoResult]
    /\ xlog = [t \in Tasks |-> <<>>]
    /\ scan = [t \in Tasks |-> NoScan]
    /\ python_fallback = "None"                  \* RustUsbBackend::new
    /\ reply = [t \in Tasks |-> NoReply]
    /\ codec = NoCodec

(***************************************************************************)
(* Parameter objects callers pass.                                         *)
(***************************************************************************)
\* the parameter object of one btle_scan call
ScanParams(duration_sec, channel, save_pcap) ==
    [NoParams EXCEPT !.duration_sec = duration_sec, !.channel = channel,
                     !.save_pcap = save_pcap]

\* Everything a single caller may pass.  A btle_scan is called with every
\* channel value and no capture time, with and without save_pcap, and on
\* channel 37 with every duration.
Full ==
    [index |-> {JNull} \cup {JInt(i) : i \in 0..MaxIndex},
     channel |-> {JNull, JStr("37"), JInt(-1), JInt(0), JInt(37), JInt(39),
                  JInt(40), JInt(78), JInt(79), JInt(255), JInt(256)},
     modulation |-> {JNull, JInt(1), JStr("bt_basic_rate"), JStr("BR"),
                     JStr("bt_low_energy"), JStr("BLE"), JStr("802.15.4"),
                     JStr("FHSS"), JStr("GFSK")},
     power_dbm |-> {JNull, JStr("0"), JInt(-31), JInt(-30), JInt(0), JInt(20),
                    JInt(21), JInt(30), JInt(236)},
     scan |-> { ScanParams(JInt(0), c, JBool(FALSE)) :
                  c \in {JNull, JInt(-1), JInt(0), JInt(36), JInt(37), JInt(38),
                         JInt(39), JInt(40), JInt(293)} }
              \cup { ScanParams(JInt(0), JInt(37), JNull) }
              \cup { ScanParams(JInt(d), JInt(37), JBool(FALSE)) : d \in 1..MaxDuration },
     low_frequency_mhz |-> {JNull, JInt(2480), JInt(9999)},
     high_frequency_mhz |-> {JNull, JInt(2402)},
     prim |-> {"control_transfer", "control_transfer_read", "bulk_read",
               "bulk_write", "ping", "reset", "set_channel", "get_channel",
               "set_modulation", "set_squelch", "stop"},
     packets |-> Packets,
     outcomes |-> RusbOutcomes,
     reads |-> RusbOutcomes,
     flush |-> {FlushQuiet, FlushStale},
     fast_reads |-> MaxFastReads]

\* What each of several concurrent callers may pass: one accepted and one
\* rejected input for each command.
Few ==
    [index |-> {JInt(0)},
     channel |-> {JInt(38), JInt(79)},
     modulation |-> {JStr("BR"), JStr("GFSK")},
     power_dbm |-> {JInt(0), JInt(30)},
     scan |-> { ScanParams(JInt(1), c, JBool(FALSE)) :
                  c \in {JInt(37), JInt(40)} },
     low_frequency_mhz |-> {JNull},
     high_frequency_mhz |-> {JNull},
     prim |-> {"ping"},
     packets |-> {Header(2, 37, 196) \o BleFrame(0, AddrA \o NameFoo)},
     outcomes |-> {"Ok", "NoDevice"},
     reads |-> {"Ok", "Timeout", "NoDevice"},
     flush |-> {FlushQuiet},
     fast_reads |-> MaxFastReads]

\* What each of two concurrent callers may pass, on a bus where every
\* control transfer succeeds and a read brings a packet or times out.
Pair ==
    [Few EXCEPT !.outcomes = {"Ok"}, !.reads = {"Ok", "Timeout"}]

\* A caller that scans a channel on which one device advertises at varying
\* signal strength next to a second device, for one second in which more
\* reads complete than elsewhere.
Busy ==
    [Few EXCEPT
       !.scan = { ScanParams(JInt(1), JInt(37), JBool(FALSE)),
                  ScanParams(JInt(0), JInt(40), JBool(FALSE)) },
       !.packets = { Header(2, 37, 196) \o BleFrame(0, AddrA \o NameFoo),   \* A, RSSI -60
                     Header(2, 37, 206) \o BleFrame(0, AddrA),              \* A, RSSI -50
                     Header(2, 37, 216) \o BleFrame(0, AddrA),              \* A, RSSI -40
                     Header(2, 37, 211) \o BleFrame(0, AddrA),              \* A, RSSI -45
                     Header(2, 37, 211) \o BleFrame(0, AddrB) },            \* B, RSSI -45
       !.outcomes = RusbOutcomes,
       !.reads = RusbOutcomes,
       !.fast_reads = MaxFastReads + 1]

\* A caller whose scan lasts longer than one read timeout.
Patient ==
    [Few EXCEPT
       !.scan = { ScanParams(JInt(MaxDuration + 1), JInt(37), JBool(FALSE)),
                  ScanParams(JInt(0), JInt(40), JBool(FALSE)) },
       !.outcomes = RusbOutcomes,
       !.reads = RusbOutcomes]

\* A caller whose scan outlasts a read timeout, on a quiet channel: a read
\* that completes brings no frame (fewer than 14 bytes), times out, or fails.
Watched ==
    [Few EXCEPT
       !.scan = { ScanParams(JInt(MaxDuration + 1), JInt(37), JBool(FALSE)),
                  ScanParams(JInt(0), JInt(37), JBool(FALSE)),
                  ScanParams(JInt(0), JInt(40), JBool(FALSE)) },
       !.packets = {<<>>}]

\* A caller scanning a crowded channel for one second: up to MaxFastReads + 4
\* reads complete before the clock moves, each bringing an advertisement of
\* A or of B, or a frame that carries no advertiser address.
Crowd ==
    [Few EXCEPT
       !.scan = { ScanParams(JInt(1), JInt(37), JBool(FALSE)),
                  ScanParams(JInt(0), JInt(40), JBool(FALSE)) },
       !.packets = { Header(2, 37, 196) \o BleFrame(0, AddrA \o NameFoo),   \* A, "Foo", RSSI -60
                     Header(2, 37, 211) \o BleFrame(0, AddrB),              \* B, RSSI -45
                     Header(2, 37, 206) \o BleFrame(7, AddrA) },            \* PDU type 7
       !.reads = {"Ok", "Timeout"},
       !.fast_reads = MaxFastReads + 4]

(***************************************************************************)
(* Steps every command shares.                                             *)
(***************************************************************************)
\* what the fallback backend (the Python sidecar), when one is configured,
\* answers to a request handed to it
FallbackAnswers == {Ok([success |-> TRUE, backend |-> "python"]), Err("BackendError")}

\* RustUsbBackend::is_native_method
is_native_method(method) ==
    method \in {"device_connect", "device_status", "device_disconnect",
                "configure_channel", "configure_modulation", "configure_power",
                "btle_scan", "bt_specan"}

\* RustUsbBackend::call once execute_native has given `res` (NoResult when
\* the method is not native and execute_native was not run); `fb` is the
\* python_fallback field, `ans` the fallback's answer should it be asked
call(method, res, fb, ans) ==
    IF is_native_method(method)
    THEN IF res.kind = "Err" /\ fb = "Some" THEN Reply("fallback", ans)
         ELSE Reply("native", res)
    ELSE IF fb = "Some" THEN Reply("fallback", ans)
         ELSE Reply("native", Err("BackendError"))

\* call() answers task t, whose native command gave `res`
Answer(t, method, res) ==
    \E ans \in IF call(method, res, python_fallback, NoResult).by = "fallback"
                THEN FallbackAnswers ELSE {NoResult} :
        reply' = [reply EXCEPT ![t] = call(method, res, python_fallback, ans)]

\* the call begins: the task records what it was asked and will lock the device
Begin(t, method, params) ==
    /\ pc[t] = "idle"
    /\ cmd' = [cmd EXCEPT ![t] = [method |-> method, params |-> params]]
    /\ result' = [result EXCEPT ![t] = NoResult]
    /\ xlog' = [xlog EXCEPT ![t] = <<>>]
    /\ pc' = [pc EXCEPT ![t] = "wait_lock"]
    /\ reply' = [reply EXCEPT ![t] = NoReply]
    /\ UNCHANGED <<handle, device_info, lock, scan, python_fallback, codec>>

\* the call returns before it asked for the device
Reject(t, method, params, res) ==
    /\ pc[t] = "idle"
    /\ cmd' = [cmd EXCEPT ![t] = [method |-> method, params |-> params]]
    /\ result' = [result EXCEPT ![t] = res]
    /\ xlog' = [xlog EXCEPT ![t] = <<>>]
    /\ Answer(t, method, res)
    /\ UNCHANGED <<handle, device_info, lock, pc, scan, python_fallback, codec>>

\* what a scan of `channel` that sees the radio as `radio` sees after another
\* caller's transfer x: STOP, SPECAN and RESET end the sniffing, SET_CHANNEL
\* to another channel retunes it, SNIFF_AA starts it again; a transfer that
\* failed has changed nothing
radio_hears(radio, channel, x) ==
    IF radio = "idle" \/ x.ep # "ctrl_out" \/ x.res # "Ok" THEN radio
    ELSE IF x.req \in {CMD_STOP, CMD_SPECAN, CMD_RESET} THEN "off"
    ELSE IF x.req = CMD_SET_CHANNEL /\ x.value # channel /\ radio = "own" THEN "foreign"
    ELSE IF x.req = CMD_BTLE_SNIFF_AA /\ radio = "off" THEN "foreign"
    ELSE radio

RECURSIVE radio_after(_, _, _)
radio_after(radio, channel, xf) ==
    IF xf = <<>> THEN radio
    ELSE radio_after(radio_hears(radio, channel, Head(xf)), channel, Tail(xf))

\* the scans of the other tasks after task t has put `xf` on the bus
overheard(t, xf) ==
    [u \in Tasks |-> IF u = t THEN scan[u]
                     ELSE [scan[u] EXCEPT !.radio = radio_after(@, scan[u].channel, xf)]]

\* the holder of the guard finishes with `res` after putting `xf` on the bus;
\* its guard is dropped
Finish(t, res, xf) ==
    /\ pc' = [pc EXCEPT ![t] = "idle"]
    /\ result' = [result EXCEPT ![t] = res]
    /\ xlog' = [xlog EXCEPT ![t] = @ \o xf]
    /\ lock' = IF lock = t THEN 0 ELSE lock
    /\ scan' = [overheard(t, xf) EXCEPT ![t] = NoScan]
    /\ UNCHANGED <<cmd, python_fallback, codec>>

\* the native command returns `res` to call(), which answers its caller
Return(t, res, xf) == Finish(t, res, xf) /\ Answer(t, cmd[t].method, res)

\* call() with a method that execute_native does not implement
call_not_native(t) ==
    /\ pc[t] = "idle"
    /\ ~is_native_method("bt_scan")
    /\ cmd' = [cmd EXCEPT ![t] = [method |-> "bt_scan", params |-> NoParams]]
    /\ result' = [result EXCEPT ![t] = NoResult]
    /\ xlog' = [xlog EXCEPT ![t] = <<>>]
    /\ Answer(t, "bt_scan", NoResult)
    /\ UNCHANGED <<handle, device_info, lock, pc, scan, python_fallback, codec>>

Running(t, method) == pc[t] = "locked" /\ lock = t /\ cmd[t].method = method

\* lock().await that hands out the guard while another task holds it
lock_await_barging(t) ==
    /\ pc[t] \in {"wait_lock", "wait_read", "wait_stop"}
    /\ lock' = t
    /\ pc' = [pc EXCEPT ![t] = CASE pc[t] = "wait_lock" -> "locked"
                                  [] pc[t] = "wait_read" -> "read"
                                  [] pc[t] = "wait_stop" -> "stop"]
    /\ UNCHANGED <<handle, device_info, cmd, result, xlog, scan, python_fallback, codec, reply>>

\* self.device.lock().await, wherever a command waits for it
lock_await(t) ==
    /\ pc[t] \in {"wait_lock", "wait_read", "wait_stop"}
    /\ lock = 0
    /\ lock' = t
    /\ pc' = [pc EXCEPT ![t] = CASE pc[t] = "wait_lock" -> "locked"
                                  [] pc[t] = "wait_read" -> "read"
                                  [] pc[t] = "wait_stop" -> "stop"]
    /\ UNCHANGED <<handle, device_info, cmd, result, xlog, scan, python_fallback, codec, reply>>

(***************************************************************************)
(* commands.rs: device_connect, device_status, device_disconnect.          *)
(***************************************************************************)
\* Everything the OS and the board can answer during one connect.  Answers
\* that connect never asks for (those after its first failing step) are
\* fixed to "Ok", so that each distinct run of connect is listed once.
QuietOs == [ndev |-> 1, open |-> "Ok", kdrv |-> "none", claim |-> "Ok"]
QuietOuts == [i \in 1..5 |-> "Ok"]
OsFails(os) == os.ndev = 0 \/ os.open # "Ok" \/ os.kdrv = "detach_failed" \/ os.claim # "Ok"
ConnectEnv(outcomes) ==
    { e \in [os : OsAnswers, outs : [1..5 -> outcomes], apiLen : {2, 4}] :
        /\ OsFails(e.os) => e.outs = QuietOuts /\ e.apiLen = 4
        /\ \A i \in 1..2 : e.outs[i] # "Ok" =>
              /\ \A j \in (i+1)..5 : e.outs[j] = "Ok"
              /\ e.apiLen = 4
        /\ e.outs[3] # "Ok" => e.apiLen = 4 }

device_connect_call(t, I) ==
    \E j \in I.index :
        Begin(t, "device_connect", [NoParams EXCEPT !.device_index = j])

device_connect(t, I) ==
    /\ Running(t, "device_connect")
    /\ LET device_index == unwrap_or(as_u64(cmd[t].params.device_index), 0)
       IN  \E e \in IF handle = "Some"
                    THEN {[os |-> QuietOs, outs |-> QuietOuts, apiLen |-> 4]}
                    ELSE ConnectEnv(I.outcomes) :
             LET c == connect(handle, device_info, device_index, e.os, e.outs, e.apiLen)
                 info == c.info
             IN  /\ handle' = c.handle
                 /\ device_info' = c.info
                 /\ IF c.res # "Ok" THEN Return(t, Err(into(c.res)), c.xfer)
                    ELSE IF ~info.present
                         THEN Return(t, Err(into("InvalidPacket")), c.xfer)
                    ELSE Return(t,
                           Ok([success |-> TRUE,
                               device_id |-> <<"ubertooth-", info.serial_number>>,
                               serial |-> info.serial_number,
                               firmware_version |-> info.firmware_version,
                               api_version |-> info.api_version,
                               board_id |-> info.board_id,
                               board_name |-> board_name(info),
                               capabilities |-> <<"bt-recon", "bt-attack", "btle-recon",
                                                  "btle-attack", "spectrum">>,
                               message |-> <<"Connected to ", board_name(info),
                                             info.firmware_version>>]),
                           c.xfer)

device_status_call(t, I) == Begin(t, "device_status", NoParams)

device_status(t, I) ==
    /\ Running(t, "device_status")
    /\ UNCHANGED <<handle, device_info>>
    /\ IF ~is_connected(handle)
       THEN Return(t, Ok([connected |-> FALSE, message |-> "No device connected"]), <<>>)
       ELSE \E out \in I.outcomes :
              LET p == ping(handle, out)
                  info == device_info
              IN  IF p.res # "Ok"
                  THEN Return(t, Ok([connected |-> FALSE,
                                     message |-> "Device not responding"]), p.xfer)
                  ELSE IF ~info.present          \* device.device_info().unwrap()
                       THEN Return(t, Panic, p.xfer)
                  ELSE Return(t,
                         Ok([connected |-> TRUE,
                             device_id |-> <<"ubertooth-", info.serial_number>>,
                             serial |-> info.serial_number,
                             firmware_version |-> info.firmware_version,
                             board_name |-> board_name(info),
                             message |-> "Device connected and responsive"]),
                         p.xfer)

device_disconnect_call(t, I) == Begin(t, "device_disconnect", NoParams)

device_disconnect(t) ==
    /\ Running(t, "device_disconnect")
    /\ IF ~is_connected(handle)
       THEN /\ UNCHANGED <<handle, device_info>>
            /\ Return(t, Ok([success |-> TRUE, message |-> "No device was connected"]), <<>>)
       ELSE LET d == disconnect(handle, device_info)
            IN  /\ handle' = d.handle
                /\ device_info' = d.info
                /\ IF d.res # "Ok" THEN Return(t, Err(into(d.res)), d.xfer)
                   ELSE Return(t, Ok([success |-> TRUE,
                                      message |-> "Device disconnected successfully"]), d.xfer)

(***************************************************************************)
(* commands.rs: configure_channel, configure_modulation, configure_power.  *)
(***************************************************************************)
configure_channel_call(t, I) ==
    \E j \in I.channel :
        LET params == [NoParams EXCEPT !.channel = j]
            o == as_u64(j)
        IN  IF ~o.some THEN Reject(t, "configure_channel", params, Err("InvalidParameter"))
            ELSE IF as_u8(o.v) > BLE_CHANNEL_MAX
                 THEN Reject(t, "configure_channel", params, Err(into("InvalidParameter")))
            ELSE Begin(t, "configure_channel", params)

configure_channel(t, I) ==
    /\ Running(t, "configure_channel")
    /\ UNCHANGED <<handle, device_info>>
    /\ LET channel == as_u8(as_u64(cmd[t].params.channel).v)
       IN  \E out \in I.outcomes :
             LET r == set_channel(handle, channel, out)
             IN  IF r.res # "Ok" THEN Return(t, Err(into(r.res)), r.xfer)
                 ELSE Return(t, Ok([success |-> TRUE,
                                    channel |-> channel,
                                    frequency_mhz |-> 2402 + channel,
                                    message |-> <<"Channel set to ", channel,
                                                  2402 + channel>>]), r.xfer)

\* the match in configure_modulation
modulation_code(str) ==
    CASE str \in {"bt_basic_rate", "BR"} -> Some(MOD_BT_BASIC_RATE)
      [] str \in {"bt_low_energy", "BLE"} -> Some(MOD_BT_LOW_ENERGY)
      [] str \in {"802.15.4", "FHSS"} -> Some(MOD_80211_FHSS)
      [] OTHER -> None

configure_modulation_call(t, I) ==
    \E j \in I.modulation :
        LET params == [NoParams EXCEPT !.modulation = j]
        IN  IF j.t # "str" THEN Reject(t, "configure_modulation", params, Err("InvalidParameter"))
            ELSE IF ~modulation_code(j.s).some
                 THEN Reject(t, "configure_modulation", params, Err(into("InvalidParameter")))
            ELSE Begin(t, "configure_modulation", params)

configure_modulation(t, I) ==
    /\ Running(t, "configure_modulation")
    /\ UNCHANGED <<handle, device_info>>
    /\ LET modulation_str == cmd[t].params.modulation.s
           modulation == modulation_code(modulation_str).v
       IN  \E out \in I.outcomes :
             LET r == set_modulation(handle, modulation, out)
             IN  IF r.res # "Ok" THEN Return(t, Err(into(r.res)), r.xfer)
                 ELSE Return(t, Ok([success |-> TRUE,
                                    modulation |-> modulation_str,
                                    message |-> <<"Modulation set to ", modulation_str>>]),
                             r.xfer)

configure_power_call(t, I) ==
    \E j \in I.power_dbm :
        LET params == [NoParams EXCEPT !.power_dbm = j]
        IN  IF ~as_i64(j).some THEN Reject(t, "configure_power", params, Err("InvalidParameter"))
            ELSE Begin(t, "configure_power", params)

configure_power(t, I) ==
    /\ Running(t, "configure_power")
    /\ UNCHANGED <<handle, device_info>>
    /\ LET power_dbm == as_i8(as_i64(cmd[t].params.power_dbm).v)
       IN  \E out \in I.outcomes :
             LET r == set_power(handle, power_dbm, out)
             IN  IF r.res # "Ok" THEN Return(t, Err(into(r.res)), r.xfer)
                 ELSE Return(t, Ok([success |-> TRUE,
                                    power_dbm |-> power_dbm,
                                    message |-> <<"Transmit power set to ", power_dbm>>]),
                             r.xfer)

(***************************************************************************)
(* commands.rs: bt_specan.                                                 *)
(***************************************************************************)
bt_specan_call(t, I) ==
    \E lo \in I.low_frequency_mhz, hi \in I.high_frequency_mhz :
        Begin(t, "bt_specan", [NoParams EXCEPT !.low_frequency_mhz = lo,
                                               !.high_frequency_mhz = hi])

\* out[1], out[2]: outcomes of the SPECAN and the STOP transfer
specan_run(h, low_freq, high_freq, out) ==
    LET a == control_transfer(h, CMD_SPECAN, low_freq, high_freq, <<>>, out[1])
        b == stop(h, out[2])
    IN  IF a.res # "Ok" THEN Ret(a.res, a.xfer)
        ELSE IF b.res # "Ok" THEN Ret(b.res, a.xfer \o b.xfer)
        ELSE Ret("Ok", a.xfer \o b.xfer)

\* outcome vectors in which the transfers after the first failing one,
\* which are never issued, are fixed to "Ok"
Outs(n, outcomes) ==
    { o \in [1..n -> outcomes] :
        \A i \in 1..n : o[i] # "Ok" => \A j \in (i+1)..n : o[j] = "Ok" }

bt_specan(t, I) ==
    /\ Running(t, "bt_specan")
    /\ UNCHANGED <<handle, device_info>>
    /\ LET duration_sec == unwrap_or(as_u64(cmd[t].params.duration_sec), 10)
           low_freq == as_u16(unwrap_or(as_u64(cmd[t].params.low_frequency_mhz), 2402))
           high_freq == as_u16(unwrap_or(as_u64(cmd[t].params.high_frequency_mhz), 2480))
       IN  \E out \in Outs(2, I.outcomes) :
             LET r == specan_run(handle, low_freq, high_freq, out)
             IN  IF r.res # "Ok" THEN Return(t, Err(into(r.res)), r.xfer)
                 ELSE Return(t, Ok([success |-> TRUE,
                                    duration_sec |-> duration_sec,
                                    low_frequency_mhz |-> low_freq,
                                    high_frequency_mhz |-> high_freq,
                                    spectrum_data |-> <<>>,
                                    message |-> "Spectrum analysis completed"]), r.xfer)

(***************************************************************************)
(* commands.rs: btle_scan and scan_ble_packets.                            *)
(***************************************************************************)
scan_duration(params) == unwrap_or(as_u64(params.duration_sec), 30)
scan_channel(params) == as_u8(unwrap_or(as_u64(params.channel), 37))
scan_save_pcap(params) == IF params.save_pcap.t = "bool" THEN params.save_pcap.b ELSE TRUE

btle_scan_call(t, I) ==
    \E params \in I.scan :
        LET channel == scan_channel(params)
        IN  IF channel # 37 /\ channel # 38 /\ channel # 39
            THEN Reject(t, "btle_scan", params, Err(into("InvalidParameter")))
            ELSE Begin(t, "btle_scan", params)

\* the setup of btle_scan starting the sniffer before it tunes the radio
scan_setup_run_sniffs_first(h, channel, out, flush) ==
    LET aa_bytes == u32_to_le_bytes(BLE_ADV_ACCESS_ADDRESS)
        s == control_transfer(h, CMD_BTLE_SNIFF_AA, 0, 0, <<>>, out[1])
        m == set_modulation(h, MOD_BT_LOW_ENERGY, out[2])
        c == set_channel(h, channel, out[3])
        a == control_transfer(h, CMD_BTLE_SET_ACCESS_ADDRESS, 0, 0, aa_bytes, out[4])
        f(i) == bulk_read(h, flush[i].out, flush[i].data).xfer
    IN  IF s.res # "Ok" THEN Ret(s.res, s.xfer)
        ELSE IF m.res # "Ok" THEN Ret(m.res, s.xfer \o m.xfer)
        ELSE IF c.res # "Ok" THEN Ret(c.res, s.xfer \o m.xfer \o c.xfer)
        ELSE IF a.res # "Ok" THEN Ret(a.res, s.xfer \o m.xfer \o c.xfer \o a.xfer)
        ELSE Ret("Ok", s.xfer \o m.xfer \o c.xfer \o a.xfer
                         \o f(1) \o f(2) \o f(3) \o f(4) \o f(5))

\* the transfers of btle_scan before it drops the lock: four configuration
\* transfers, each ending the call when it fails, then five flush reads
\* whose results are discarded.  out[1..4] are the outcomes of the
\* configuration transfers, flush[1..5] what the five flush reads meet
scan_setup_run(h, channel, out, flush) ==
    LET aa_bytes == u32_to_le_bytes(BLE_ADV_ACCESS_ADDRESS)
        m == set_modulation(h, MOD_BT_LOW_ENERGY, out[1])
        c == set_channel(h, channel, out[2])
        a == control_transfer(h, CMD_BTLE_SET_ACCESS_ADDRESS, 0, 0, aa_bytes, out[3])
        s == control_transfer(h, CMD_BTLE_SNIFF_AA, 0, 0, <<>>, out[4])
        f(i) == bulk_read(h, flush[i].out, flush[i].data).xfer
    IN  IF m.res # "Ok" THEN Ret(m.res, m.xfer)
        ELSE IF c.res # "Ok" THEN Ret(c.res, m.xfer \o c.xfer)
        ELSE IF a.res # "Ok" THEN Ret(a.res, m.xfer \o c.xfer \o a.xfer)
        ELSE IF s.res # "Ok" THEN Ret(s.res, m.xfer \o c.xfer \o a.xfer \o s.xfer)
        ELSE Ret("Ok", m.xfer \o c.xfer \o a.xfer \o s.xfer
                         \o f(1) \o f(2) \o f(3) \o f(4) \o f(5))

btle_scan_setup(t, I) ==
    /\ Running(t, "btle_scan")
    /\ UNCHANGED <<handle, device_info>>
    /\ \E out \in Outs(4, I.outcomes), flush \in I.flush :
         LET r == scan_setup_run(handle, scan_channel(cmd[t].params), out, flush)
         IN  /\ r.res # "Ok" => flush = FlushQuiet       \* no flush read was made
             /\ IF r.res # "Ok" THEN Return(t, Err(into(r.res)), r.xfer)
                ELSE /\ lock' = 0                       \* drop(device)
                     /\ pc' = [pc EXCEPT ![t] = "sleep"]
                     /\ xlog' = [xlog EXCEPT ![t] = @ \o r.xfer]
                     /\ scan' = [overheard(t, r.xfer) EXCEPT
                                   ![t] = [NoScan EXCEPT
                                             !.channel = scan_channel(cmd[t].params),
                                             !.radio = "own"]]
                     /\ UNCHANGED <<cmd, result, python_fallback, codec, reply>>

\* tokio::time::sleep(100ms), then scan_ble_packets takes start_time
btle_scan_sleep(t) ==
    /\ pc[t] = "sleep"
    /\ pc' = [pc EXCEPT ![t] = "loop"]
    /\ scan' = [scan EXCEPT ![t] = [NoScan EXCEPT !.channel = scan[t].channel,
                                                  !.radio = scan[t].radio]]
    /\ UNCHANGED <<handle, device_info, lock, cmd, result, xlog, python_fallback, codec, reply>>

\* a loop condition that never looks at the clock
scan_loop_test_ignores_clock(t) ==
    /\ pc[t] = "loop"
    /\ pc' = [pc EXCEPT ![t] = "wait_read"]
    /\ UNCHANGED <<handle, device_info, lock, cmd, result, xlog, scan, python_fallback, codec, reply>>

\* while start_time.elapsed() < scan_duration
scan_loop_test(t) ==
    /\ pc[t] = "loop"
    /\ pc' = [pc EXCEPT ![t] = IF scan[t].elapsed < scan_duration(cmd[t].params)
                               THEN "wait_read" ELSE "wait_stop"]
    /\ UNCHANGED <<handle, device_info, lock, cmd, result, xlog, scan, python_fallback, codec, reply>>

\* the clock after a read that took `d` seconds
tick(st, d) == IF d > 0 THEN [st EXCEPT !.elapsed = @ + d, !.fast = 0]
               ELSE [st EXCEPT !.fast = @ + 1]

\* the read of the capture loop with the guard kept until the next iteration
scan_read_keeps_guard(t, I) ==
    /\ pc[t] = "read" /\ lock = t
    /\ UNCHANGED <<handle, device_info, cmd, result, python_fallback, codec, reply>>
    /\ lock' = lock
    /\ pc' = [pc EXCEPT ![t] = "arm"]
    /\ \E out \in I.reads, d \in {0, 1} :
         \E buffer \in IF out = "Ok" /\ handle = "Some" /\ scan[t].radio # "off"
                        THEN I.packets ELSE {<<>>} :
           LET r == bulk_read(handle, out, buffer)
           IN  /\ r.res = "Timeout" => d = 1         \* the read lasted its 1000 ms
               /\ r.res = "NotOpen" => d = 0
               /\ d = 0 /\ r.res = "Ok" => scan[t].fast < I.fast_reads
               /\ d = 0 /\ r.res \notin {"Ok", "NotOpen"} => scan[t].fast = 0
               /\ xlog' = [xlog EXCEPT ![t] = @ \o r.xfer]
               /\ scan' = [scan EXCEPT ![t] =
                              [tick(@, d) EXCEPT !.arm = [res |-> r.res, buffer |-> buffer]]]

\* bulk_read under the guard of one iteration of the capture loop, and the
\* drop(device) with which each arm of the match begins
scan_read(t, I) ==
    /\ pc[t] = "read" /\ lock = t
    /\ UNCHANGED <<handle, device_info, cmd, result, python_fallback, codec, reply>>
    /\ lock' = 0
    /\ pc' = [pc EXCEPT ![t] = "arm"]
    /\ \E out \in I.reads, d \in {0, 1} :
         \E buffer \in IF out = "Ok" /\ handle = "Some" /\ scan[t].radio # "off"
                        THEN I.packets ELSE {<<>>} :
           LET r == bulk_read(handle, out, buffer)
           IN  /\ r.res = "Timeout" => d = 1         \* the read lasted its 1000 ms
               /\ r.res = "NotOpen" => d = 0
               /\ d = 0 /\ r.res = "Ok" => scan[t].fast < I.fast_reads
               /\ d = 0 /\ r.res \notin {"Ok", "NotOpen"} => scan[t].fast = 0
               /\ xlog' = [xlog EXCEPT ![t] = @ \o r.xfer]
               /\ scan' = [scan EXCEPT ![t] =
                              [tick(@, d) EXCEPT !.arm = [res |-> r.res, buffer |-> buffer]]]

\* the arms of the match with a timeout leaving the loop like any other error
scan_arm_timeout_breaks(t) ==
    /\ pc[t] = "arm"
    /\ LET arm == scan[t].arm
           st == [scan[t] EXCEPT !.arm = NoArm]
       IN  IF arm.res = "Ok"
           THEN /\ scan' = [scan EXCEPT ![t] = process_packet(st, arm.buffer)]
                /\ pc' = [pc EXCEPT ![t] = "loop"]
           ELSE /\ scan' = [scan EXCEPT ![t] = [st EXCEPT !.broke = TRUE]]
                /\ pc' = [pc EXCEPT ![t] = "wait_stop"]
    /\ UNCHANGED <<handle, device_info, lock, cmd, result, xlog, python_fallback, codec, reply>>

\* the arms of the match with a read error handed to the caller by `?`
scan_arm_error_returns(t) ==
    /\ pc[t] = "arm"
    /\ LET arm == scan[t].arm
           st == [scan[t] EXCEPT !.arm = NoArm]
       IN  IF arm.res = "Ok"
           THEN /\ scan' = [scan EXCEPT ![t] = process_packet(st, arm.buffer)]
                /\ pc' = [pc EXCEPT ![t] = "loop"]
                /\ UNCHANGED <<lock, cmd, result, xlog, python_fallback, codec, reply>>
           ELSE IF arm.res = "Timeout"
           THEN /\ scan' = [scan EXCEPT ![t] = st]
                /\ pc' = [pc EXCEPT ![t] = "loop"]
                /\ UNCHANGED <<lock, cmd, result, xlog, python_fallback, codec, reply>>
           ELSE Return(t, Err(into(arm.res)), <<>>)
    /\ UNCHANGED <<handle, device_info>>

\* the rest of the arm the read's result selects: Ok(len) decodes the bytes,
\* Err(Timeout) sleeps 10 ms, any other Err leaves the loop by break
scan_arm(t) ==
    /\ pc[t] = "arm"
    /\ LET arm == scan[t].arm
           st == [scan[t] EXCEPT !.arm = NoArm]
       IN  IF arm.res = "Ok"
           THEN /\ scan' = [scan EXCEPT ![t] = process_packet(st, arm.buffer)]
                /\ pc' = [pc EXCEPT ![t] = "loop"]
           ELSE IF arm.res = "Timeout"
           THEN /\ scan' = [scan EXCEPT ![t] = st]
                /\ pc' = [pc EXCEPT ![t] = "loop"]
           ELSE /\ scan' = [scan EXCEPT ![t] = [st EXCEPT !.broke = TRUE]]
                /\ pc' = [pc EXCEPT ![t] = "wait_stop"]
    /\ UNCHANGED <<handle, device_info, lock, cmd, result, xlog, python_fallback, codec, reply>>

devices_found(devices) ==
    { [mac_address |-> mac,
       address_type |-> devices[mac].address_type,
       device_name |-> IF devices[mac].name.some THEN devices[mac].name.v ELSE Unknown,
       rssi_avg |-> devices[mac].rssi_avg,
       packet_count |-> devices[mac].packet_count] : mac \in DOMAIN devices }

\* btle_scan from the second lock().await to its end
btle_scan_stop(t, I) ==
    /\ pc[t] = "stop" /\ lock = t
    /\ UNCHANGED <<handle, device_info>>
    /\ LET params == cmd[t].params
           channel == scan_channel(params)
           capture_id == <<"cap-btle-", channel>>
       IN  \E out \in I.outcomes, mkdir \in {"Ok", "Err"} :
             LET r == stop(handle, out)
             IN  /\ mkdir = "Err" => r.res = "Ok" /\ scan_save_pcap(params)
                 /\ IF r.res # "Ok" THEN Return(t, Err(into(r.res)), r.xfer)
                    ELSE IF mkdir = "Err" THEN Return(t, Err("Io"), r.xfer)
                    ELSE Return(t,
                           Ok([success |-> TRUE,
                               capture_id |-> capture_id,
                               scan_duration_sec |-> scan_duration(params),
                               channel |-> channel,
                               devices_found |-> devices_found(scan[t].devices),
                               total_packets |-> scan[t].total_packets,
                               pcap_path |-> IF scan_save_pcap(params)
                                             THEN <<"captures/", capture_id, ".pcap">>
                                             ELSE <<>>,
                               preview |-> scan[t].preview]),
                           r.xfer)

(***************************************************************************)
(* device.rs: a holder of the device calling one transfer primitive        *)
(* directly, as RustUsbBackend::is_alive does with ping.                   *)
(***************************************************************************)
primitive(h, prim, out) ==
    CASE prim = "control_transfer" -> control_transfer(h, CMD_SET_SQUELCH, 0, 0, <<>>, out)
      [] prim = "control_transfer_read" -> control_transfer_read(h, CMD_GET_CHANNEL, 0, 0, out)
      [] prim = "bulk_read" -> bulk_read(h, out, <<>>)
      [] prim = "bulk_write" -> bulk_write(h, <<1>>, out)
      [] prim = "ping" -> ping(h, out)
      [] prim = "reset" -> reset(h, out)
      [] prim = "set_channel" -> set_channel(h, 37, out)
      [] prim = "get_channel" -> get_channel(h, out)
      [] prim = "set_modulation" -> set_modulation(h, MOD_BT_LOW_ENERGY, out)
      [] prim = "set_squelch" -> set_squelch(h, -20, out)
      [] prim = "stop" -> stop(h, out)

device_primitive_call(t, I) ==
    \E prim \in I.prim :
        Begin(t, "primitive", [NoParams EXCEPT !.prim = JStr(prim)])

device_primitive(t, I) ==
    /\ Running(t, "primitive")
    /\ UNCHANGED <<handle, device_info>>
    /\ \E out \in I.outcomes :
         LET r == primitive(handle, cmd[t].params.prim.s, out)
         IN  /\ Finish(t, IF r.res = "Ok" THEN Ok(NoJson) ELSE Err(r.res), r.xfer)
             /\ UNCHANGED reply

(***************************************************************************)
(* The system.                                                             *)
(***************************************************************************)
Step(t, I) ==
    \/ lock_await(t)
    \/ call_not_native(t)
    \/ device_connect_call(t, I)
    \/ device_connect(t, I)
    \/ device_status_call(t, I)
    \/ device_status(t, I)
    \/ device_disconnect_call(t, I)
    \/ device_disconnect(t)
    \/ configure_channel_call(t, I)
    \/ configure_channel(t, I)
    \/ configure_modulation_call(t, I)
    \/ configure_modulation(t, I)
    \/ configure_power_call(t, I)
    \/ configure_power(t, I)
    \/ bt_specan_call(t, I)
    \/ bt_specan(t, I)
    \/ btle_scan_call(t, I)
    \/ btle_scan_setup(t, I)
    \/ btle_scan_sleep(t)
    \/ scan_loop_test(t)
    \/ scan_read(t, I)
    \/ scan_arm(t)
    \/ btle_scan_stop(t, I)
    \/ device_primitive_call(t, I)
    \/ device_primitive(t, I)

\* one caller issuing one command after another, with every input
Next == Step(1, Full)
Spec == Init /\ [][Next]_vars

\* one caller of a backend built by RustUsbBackend::new or ::with_fallback
InitBackend ==
    /\ handle = "None"
    /\ device_info = NoInfo
    /\ lock = 0
    /\ pc = [t \in Tasks |-> "idle"]
    /\ cmd = [t \in Tasks |-> [method |-> "none", params |-> NoParams]]
    /\ result = [t \in Tasks |-> NoResult]
    /\ xlog = [t \in Tasks |-> <<>>]
    /\ scan = [t \in Tasks |-> NoScan]
    /\ python_fallback \in {"None", "Some"}
    /\ reply = [t \in Tasks |-> NoReply]
    /\ codec = NoCodec
NextBackend == Step(1, Few)
SpecBackend == InitBackend /\ [][NextBackend]_vars

\* one caller of a long scan
NextPatient == Step(1, Patient)
SpecPatient == Init /\ [][NextPatient]_vars

\* one caller on a busy channel
NextBusy == Step(1, Busy)
SpecBusy == Init /\ [][NextBusy]_vars

\* one caller on a crowded channel
NextCrowd == Step(1, Crowd)
SpecCrowd == Init /\ [][NextCrowd]_vars

(***************************************************************************)
(* protocol.rs on its own: the codec applied to header values, header      *)
(* buffers and whole USB packets drawn from sample sets.                   *)
(***************************************************************************)
HeaderSamples ==
    [ok : {TRUE}, pkt_type : {0, 2, 255}, status : {0, 1}, channel : {0, 37, 255},
     clock : {U32(0, 0), U32(65535, 65535), U32(36489, 48854), U32(1, 256)},
     rssi : {-128, -60, 0, 127},
     reserved : {<<0, 0, 0, 0, 0, 0>>, <<1, 2, 3, 4, 5, 6>>}]

\* every 14-byte buffer over two byte values
BufferSamples == [1..14 -> {0, 255}]

\* a BLE frame with PDU header `pdu` and length byte `len` in front of seven
\* body bytes and three more; PacketSamples cuts it off at every length
FramePayload(pdu, len) ==
    AdvAccessAddress \o <<pdu, len>> \o <<1, 2, 3, 4, 5, 6, 7>> \o <<17, 34, 51>>
PacketSamples ==
    { Header(ty, 37, 196) \o Slice(FramePayload(pdu, len), 0, n) :
        ty \in {0, 2}, pdu \in {0, 6, 7, 22, 23}, len \in {0, 1, 5, 6, 7, 255},
        n \in 0..16 }

\* advertising data: every byte string up to MaxAdLen over lengths 0, 1, 2,
\* 8, 9 and 255, the two name types, the letter "A" and a byte (0xFF) that no
\* UTF-8 text contains; and a name behind a flags structure
AdBytes == {0, 1, 2, 8, 9, 65, 255}
AdSamples ==
    UNION { [1..n -> AdBytes] : n \in 0..MaxAdLen } \cup {NameFoo, <<2, 1, 6>> \o NameFoo}
\* BLE payloads: an advertiser address and advertising data, or less than
\* an address
NamePayloads == { AddrB \o ad : ad \in AdSamples } \cup {<<>>, <<1, 2, 3>>}

Codec(op, in) == [op |-> op, in |-> in, out |-> <<>>, done |-> FALSE]

\* locals of BlePacket::device_name: `entered` once ad_data is taken,
\* `offset` the cursor, `read` the indices of ad_data read so far, `passes`
\* the passes through the loop, `ret` the value returned
NameWalk == [entered |-> FALSE, offset |-> 0, read |-> {}, passes |-> 0, ret |-> NoName]

InitCodec ==
    /\ handle = "None"
    /\ device_info = NoInfo
    /\ lock = 0
    /\ pc = [t \in Tasks |-> "idle"]
    /\ cmd = [t \in Tasks |-> [method |-> "none", params |-> NoParams]]
    /\ result = [t \in Tasks |-> NoResult]
    /\ xlog = [t \in Tasks |-> <<>>]
    /\ scan = [t \in Tasks |-> NoScan]
    /\ python_fallback = "None"
    /\ reply = [t \in Tasks |-> NoReply]
    /\ \/ codec \in { Codec("header_roundtrip", h) : h \in HeaderSamples }
       \/ codec \in { Codec("bytes_roundtrip", b) : b \in BufferSamples }
       \/ codec \in { Codec("ble_decode", p) : p \in PacketSamples }
       \/ codec \in { [Codec("device_name", [payload |-> p]) EXCEPT !.out = NameWalk] :
                          p \in NamePayloads }

\* to_bytes, then from_bytes on what it produced
header_roundtrip ==
    /\ codec.op = "header_roundtrip" /\ ~codec.done
    /\ LET bytes == UsbPacketHeader_to_bytes(codec.in)
       IN  codec' = [codec EXCEPT !.done = TRUE,
                                  !.out = [bytes |-> bytes,
                                           header |-> UsbPacketHeader_from_bytes(bytes)]]
    /\ UNCHANGED <<handle, device_info, lock, pc, cmd, result, xlog, scan,
                   python_fallback, reply>>

\* from_bytes, then to_bytes on what it produced
bytes_roundtrip ==
    /\ codec.op = "bytes_roundtrip" /\ ~codec.done
    /\ LET header == UsbPacketHeader_from_bytes(codec.in)
       IN  codec' = [codec EXCEPT !.done = TRUE,
                                  !.out = [header |-> header,
                                           bytes |-> UsbPacketHeader_to_bytes(header)]]
    /\ UNCHANGED <<handle, device_info, lock, pc, cmd, result, xlog, scan,
                   python_fallback, reply>>

\* UsbPacket::from_bytes, BlePacket::from_usb_packet, advertiser_address and
\* the MAC string, as the capture loop chains them
ble_decode ==
    /\ codec.op = "ble_decode" /\ ~codec.done
    /\ LET usb_pkt == UsbPacket_from_bytes(codec.in)
           ble_pkt == BlePacket_from_usb_packet(usb_pkt)
           addr == IF ble_pkt.ok THEN advertiser_address(ble_pkt) ELSE NoAddr
       IN  codec' = [codec EXCEPT !.done = TRUE,
                                  !.out = [usb_pkt |-> usb_pkt,
                                           ble_pkt |-> ble_pkt,
                                           addr |-> addr,
                                           mac |-> IF addr.some THEN mac_format(addr.v)
                                                   ELSE <<>>]]
    /\ UNCHANGED <<handle, device_info, lock, pc, cmd, result, xlog, scan,
                   python_fallback, reply>>

\* let ad_data = &self.payload.get(6..)?;
device_name_enter ==
    /\ codec.op = "device_name" /\ ~codec.done /\ ~codec.out.entered
    /\ codec' = IF Len(codec.in.payload) < 6
                THEN [codec EXCEPT !.done = TRUE, !.out.ret = NoName]
                ELSE [codec EXCEPT !.out.entered = TRUE]
    /\ UNCHANGED <<handle, device_info, lock, pc, cmd, result, xlog, scan,
                   python_fallback, reply>>

\* one pass through the while loop of device_name
device_name_pass ==
    /\ codec.op = "device_name" /\ ~codec.done /\ codec.out.entered
    /\ LET ad_data == Slice(codec.in.payload, 6, Len(codec.in.payload))
           pass == ad_step(ad_data, codec.out.offset)
       IN  codec' = [codec EXCEPT !.done = pass.kind # "continue",
                                  !.out.offset = pass.offset,
                                  !.out.read = @ \cup pass.read,
                                  !.out.passes = @ + 1,
                                  !.out.ret = pass.name]
    /\ UNCHANGED <<handle, device_info, lock, pc, cmd, result, xlog, scan,
                   python_fallback, reply>>

NextCodec ==
    \/ header_roundtrip
    \/ bytes_roundtrip
    \/ ble_decode
    \/ device_name_enter
    \/ device_name_pass
SpecCodec == InitCodec /\ [][NextCodec]_vars

\* concurrent callers
NextConc == \E t \in Tasks : Step(t, Pair)
SpecConc == Init /\ [][NextConc]_vars

\* The steps task t takes by itself once it was called: the code between
\* two awaits runs to its end, and every transfer returns within its timeout.
Runs(t, I) ==
    \/ device_connect(t, I)
    \/ device_status(t, I)
    \/ device_disconnect(t)
    \/ configure_channel(t, I)
    \/ configure_modulation(t, I)
    \/ configure_power(t, I)
    \/ bt_specan(t, I)
    \/ btle_scan_setup(t, I)
    \/ btle_scan_sleep(t)
    \/ scan_loop_test(t)
    \/ scan_read(t, I)
    \/ scan_arm(t)
    \/ btle_scan_stop(t, I)
    \/ device_primitive(t, I)

\* A caller of every command next to a second task that asks for the
\* device's status again and again, on a runtime that keeps running every
\* task that can run, with the tokio Mutex, which hands the lock to its
\* waiters in turn.
NextFair ==
    \/ Step(1, Watched)
    \/ device_status_call(2, Watched)
    \/ lock_await(2)
    \/ device_status(2, Watched)
SpecFair ==
    /\ Init /\ [][NextFair]_vars
    /\ WF_vars(Runs(1, Watched)) /\ SF_vars(lock_await(1))
    /\ WF_vars(Runs(2, Watched)) /\ SF_vars(lock_await(2))

TypeOK ==
    /\ handle \in {"None", "Some"}
    /\ lock \in Tasks \cup {0}
    /\ \A t \in Tasks : result[t].kind \in {"None", "Ok", "Err", "Panic"}

(***************************************************************************)
(* Properties.                                                             *)
(***************************************************************************)
\* task t's last command was `method` and it has returned
Returned(t, method) ==
    pc[t] = "idle" /\ cmd[t].method = method /\ result[t].kind # "None"

\* task t's command `method` returns in this step
Returns(t, method) ==
    pc[t] \in {"locked", "stop"} /\ cmd[t].method = method /\ pc'[t] = "idle"

ExposedOperations == {"device_connect", "device_status", "device_disconnect",
                      "configure_channel", "configure_modulation",
                      "configure_power", "btle_scan", "bt_specan"}

\* C1: when connect has returned, either it succeeded and DeviceInfo is
\* populated, or it failed (other than with AlreadyOpen, which keeps the
\* earlier connection) and no handle and no DeviceInfo is retained.
C1_ConnectIsAtomic ==
    \A t \in Tasks :
        Returned(t, "device_connect") =>
            \/ result[t].kind = "Ok" /\ handle = "Some" /\ device_info.present
            \/ result[t].kind = "Err" /\ result[t].err = into("AlreadyOpen")
            \/ result[t].kind = "Err" /\ handle = "None" /\ ~device_info.present

\* C2: a connect made while a handle exists fails with AlreadyOpen, makes no
\* OS call and no transfer, and leaves handle and DeviceInfo as they were.
C2_SecondConnectRejected ==
    [][\A t \in Tasks :
         Returns(t, "device_connect") /\ handle = "Some" =>
             /\ result'[t].kind = "Err"
             /\ result'[t].err = into("AlreadyOpen")
             /\ xlog'[t] = <<>>
             /\ handle' = "Some"
             /\ device_info' = device_info]_vars

C2_Witness ==
    \E t \in Tasks :
        /\ Returned(t, "device_connect")
        /\ result[t].kind = "Err" /\ result[t].err = into("AlreadyOpen")
        /\ handle = "Some" /\ device_info.present

\* C3: when the capture loop was left because a read failed with an error
\* other than Timeout, btle_scan returns a success result that carries the
\* devices, total_packets and preview collected so far.
C3_ScanSurvivesReadError ==
    [][\A t \in Tasks :
         Returns(t, "btle_scan") /\ pc[t] = "stop" /\ scan[t].broke =>
             /\ result'[t].kind = "Ok"
             /\ result'[t].json.success = TRUE
             /\ result'[t].json.total_packets = scan[t].total_packets
             /\ result'[t].json.preview = scan[t].preview
             /\ result'[t].json.devices_found = devices_found(scan[t].devices)]_vars

\* C4: after a transfer primitive fails with Disconnected, no handle is left
\* (is_connected() is false, so a following connect is not AlreadyOpen).
C4_FatalErrorDisconnects ==
    [][\A t \in Tasks :
         /\ Returns(t, "primitive")
         /\ result'[t].kind = "Err" /\ result'[t].err = "Disconnected"
         => ~is_connected(handle')]_vars

\* C5: with no handle, every transfer primitive and every wrapper built on
\* one fails with NotOpen and puts nothing on the bus.
C5_NoHandleNotOpen ==
    [][\A t \in Tasks :
         Returns(t, "primitive") /\ handle = "None" =>
             /\ result'[t].kind = "Err"
             /\ result'[t].err = "NotOpen"
             /\ xlog'[t] = <<>>
             /\ handle' = "None"]_vars

C5_Witness ==
    \E t \in Tasks :
        /\ Returned(t, "primitive")
        /\ cmd[t].params.prim.s = "bulk_write"
        /\ result[t].kind = "Err" /\ result[t].err = "NotOpen"
        /\ handle = "None"

\* C6: device_disconnect always returns success; when it returns there is no
\* handle and no cached DeviceInfo; called with no device connected it
\* changes nothing.
C6_DisconnectIdempotent ==
    [][\A t \in Tasks :
         Returns(t, "device_disconnect") =>
             /\ result'[t].kind = "Ok"
             /\ result'[t].json.success = TRUE
             /\ ~is_connected(handle')
             /\ ~device_info'.present
             /\ ~is_connected(handle) =>
                    handle' = handle /\ device_info' = device_info /\ xlog'[t] = <<>>]_vars

C6_Witness ==
    \E t \in Tasks :
        /\ Returned(t, "device_disconnect")
        /\ result[t].kind = "Ok"
        /\ result[t].json.message = "Device disconnected successfully"
        /\ handle = "None" /\ ~device_info.present

\* C7: device_status always returns a result object, never an error and
\* never a panic: connected:false with no handle, and connected:true only
\* with a handle and together with the cached identity.
C7_StatusNeverFails ==
    [][\A t \in Tasks :
         Returns(t, "device_status") =>
             /\ result'[t].kind = "Ok"
             /\ ~is_connected(handle) => result'[t].json.connected = FALSE
             /\ result'[t].json.connected = TRUE =>
                    /\ is_connected(handle)
                    /\ device_info.present
                    /\ result'[t].json.serial = device_info.serial_number]_vars

\* C8: every result object an exposed operation returns has a boolean
\* `success` field.
C8_ResultHasSuccess ==
    \A t \in Tasks :
        result[t].kind = "Ok" /\ cmd[t].method \in ExposedOperations =>
            /\ "success" \in DOMAIN result[t].json
            /\ result[t].json.success \in BOOLEAN

\* C9: btle_scan given an integer channel outside {37, 38, 39} has returned
\* InvalidParameter without a transfer; given no channel it scans channel 37.
C9_ScanChannelValidated ==
    \A t \in Tasks :
        cmd[t].method = "btle_scan" =>
            /\ cmd[t].params.channel.t = "int"
               /\ cmd[t].params.channel.i \notin {37, 38, 39} =>
                   /\ pc[t] = "idle"
                   /\ result[t].kind = "Err"
                   /\ result[t].err = "InvalidParameter"
                   /\ xlog[t] = <<>>
            /\ cmd[t].params.channel = JNull /\ Len(transfers(xlog[t])) >= 2 =>
                   /\ xlog[t][2].req = CMD_SET_CHANNEL
                   /\ xlog[t][2].value = 37

\* C10: configure_channel never rejects a channel from 0 to 78 as an invalid
\* parameter, and when it succeeds it has issued exactly one SET_CHANNEL
\* transfer for that channel and returns it with frequency_mhz = 2402 +
\* channel; every channel above 78 is rejected with InvalidParameter and no
\* transfer.
C10_ChannelRange ==
    \A t \in Tasks :
        Returned(t, "configure_channel") /\ cmd[t].params.channel.t = "int" =>
            LET c == cmd[t].params.channel.i
                r == result[t]
            IN  /\ c \in 0..78 => ~(r.kind = "Err" /\ r.err = "InvalidParameter")
                /\ c \in 0..78 /\ r.kind = "Ok" =>
                       /\ Len(transfers(xlog[t])) = 1
                       /\ xlog[t][1].req = CMD_SET_CHANNEL
                       /\ xlog[t][1].value = c
                       /\ r.json.channel = c
                       /\ r.json.frequency_mhz = 2402 + c
                /\ c > 78 => /\ r.kind = "Err" /\ r.err = "InvalidParameter"
                             /\ xlog[t] = <<>>

\* C11: configure_power given an integer power_dbm outside [-30, 20] has
\* returned InvalidParameter without a transfer; given one inside the range,
\* with a device open, it has issued exactly one SET_POWER control transfer
\* whose wValue is that value (as a 16-bit two's complement number).
C11_PowerRange ==
    \A t \in Tasks :
        Returned(t, "configure_power") /\ cmd[t].params.power_dbm.t = "int" =>
            LET p == cmd[t].params.power_dbm.i
                r == result[t]
            IN  /\ p < -30 \/ p > 20 =>
                    /\ r.kind = "Err" /\ r.err = "InvalidParameter"
                    /\ xlog[t] = <<>>
                /\ p >= -30 /\ p <= 20 /\ is_connected(handle) =>
                    /\ Len(transfers(xlog[t])) = 1
                    /\ xlog[t][1].ep = "ctrl_out"
                    /\ xlog[t][1].req = CMD_SET_POWER
                    /\ xlog[t][1].value = as_u16(p)

\* task t's call ends in this step, at its entry or under the lock
Ends(t) ==
    /\ pc'[t] = "idle"
    /\ <<pc[t], cmd[t], result[t], xlog[t]>> # <<pc'[t], cmd'[t], result'[t], xlog'[t]>>

\* C12: whenever an exposed operation returns InvalidParameter, the call has
\* put no control or bulk transfer on the bus and made no OS call, and the
\* device (handle and cached identity) is as it was.
C12_ValidationBeforeHardware ==
    [][\A t \in Tasks :
         /\ Ends(t)
         /\ cmd'[t].method \in ExposedOperations
         /\ result'[t].kind = "Err" /\ result'[t].err = "InvalidParameter"
         => /\ xlog'[t] = <<>>
            /\ handle' = handle
            /\ device_info' = device_info]_vars

\* an out-of-range power rejected by set_power with a device connected
C12_Witness ==
    \E t \in Tasks :
        /\ Returned(t, "configure_power")
        /\ cmd[t].params.power_dbm = JInt(30)
        /\ result[t].kind = "Err" /\ result[t].err = "InvalidParameter"
        /\ xlog[t] = <<>>
        /\ is_connected(handle)

\* C13: when a native command has returned InvalidParameter, call() hands
\* exactly that error to its caller and no other backend was asked, with or
\* without a fallback configured.
C13_InvalidParameterSurfaced ==
    \A t \in Tasks :
        /\ Returned(t, cmd[t].method)
        /\ is_native_method(cmd[t].method)
        /\ result[t].kind = "Err" /\ result[t].err = "InvalidParameter"
        => /\ reply[t].by = "native"
           /\ reply[t].res = result[t]

IsIdentityRead(x) == x.ep = "ctrl_in"
IdentityOrder == <<CMD_GET_BOARD_ID, CMD_GET_REV_NUM, CMD_GET_API_VERSION,
                   CMD_GET_SERIAL, CMD_GET_COMPILE_INFO>>

\* C14: the identity reads of a connect are issued in the order board id,
\* firmware version, API version, serial number, compile info; connect fails
\* at a failed board-id or firmware-version read; when both succeeded connect
\* succeeds after all five reads, and each of the API version, serial number
\* and compile info whose read failed is "unknown" in DeviceInfo.
C14_IdentityReads ==
    \A t \in Tasks :
        Returned(t, "device_connect") =>
            LET ids == SelectSeq(xlog[t], IsIdentityRead)
                n == Len(ids)
            IN  /\ n <= 5
                /\ \A i \in 1..n : ids[i].req = IdentityOrder[i]
                /\ n >= 1 /\ ids[1].res # "Ok" => n = 1 /\ result[t].kind = "Err"
                /\ n >= 2 /\ ids[2].res # "Ok" => n = 2 /\ result[t].kind = "Err"
                /\ n >= 2 /\ ids[1].res = "Ok" /\ ids[2].res = "Ok" =>
                       /\ n = 5
                       /\ result[t].kind = "Ok"
                       /\ device_info.present
                       /\ ids[3].res # "Ok" => device_info.api_version = "unknown"
                       /\ ids[4].res # "Ok" => device_info.serial_number = "unknown"
                       /\ ids[5].res # "Ok" => device_info.compile_info = "unknown"
                       /\ result[t].json.api_version = device_info.api_version
                       /\ result[t].json.serial = device_info.serial_number

\* a connect that succeeded although its API-version and serial reads failed
C14_Witness ==
    \E t \in Tasks :
        /\ Returned(t, "device_connect")
        /\ result[t].kind = "Ok"
        /\ LET ids == SelectSeq(xlog[t], IsIdentityRead)
           IN  /\ Len(ids) = 5
               /\ ids[3].res = "Timeout" /\ ids[4].res = "Disconnected"
               /\ ids[5].res = "Ok"
        /\ device_info.api_version = "unknown"
        /\ device_info.serial_number = "unknown"
        /\ device_info.compile_info = BoardAnswer.compile_info

\* C15: bt_specan given an integer frequency range whose low end lies above
\* its high end has returned InvalidParameter without a transfer; when it
\* succeeds it has issued exactly the SPECAN command for the requested range
\* followed by STOP, and its spectrum_data is empty.
C15_SpecanValidated ==
    \A t \in Tasks :
        Returned(t, "bt_specan") =>
            LET lo == cmd[t].params.low_frequency_mhz
                hi == cmd[t].params.high_frequency_mhz
                r == result[t]
            IN  /\ lo.t = "int" /\ hi.t = "int" /\ lo.i > hi.i =>
                    /\ r.kind = "Err" /\ r.err = "InvalidParameter"
                    /\ xlog[t] = <<>>
                /\ r.kind = "Ok" =>
                    /\ Len(xlog[t]) = 2
                    /\ xlog[t][1].ep = "ctrl_out" /\ xlog[t][1].req = CMD_SPECAN
                    /\ xlog[t][1].value = r.json.low_frequency_mhz
                    /\ xlog[t][1].index = r.json.high_frequency_mhz
                    /\ xlog[t][2].ep = "ctrl_out" /\ xlog[t][2].req = CMD_STOP
                    /\ r.json.spectrum_data = <<>>

\* the reads of the capture loop in a btle_scan's transfer log: the bulk
\* reads after the four configuration transfers and the five flush reads
SetupTransfers ==
    Len(scan_setup_run("Some", 37, [i \in 1..4 |-> "Ok"], FlushQuiet).xfer)
IsBulkIn(x) == x.ep = "bulk_in"
CaptureReads(log) ==
    IF Len(log) <= SetupTransfers THEN <<>>
    ELSE SelectSeq(SubSeq(log, SetupTransfers + 1, Len(log)), IsBulkIn)

\* the bytes of a read decode as a BLE packet
Decodes(x) ==
    /\ x.res = "Ok"
    /\ Len(x.data) >= 14
    /\ BlePacket_from_usb_packet(UsbPacket_from_bytes(x.data)).ok
Decoded(x) == BlePacket_from_usb_packet(UsbPacket_from_bytes(x.data))
\* the read is a decoded advertisement of the address printed as `mac`
From(x, mac) ==
    /\ Decodes(x)
    /\ advertiser_address(Decoded(x)).some
    /\ mac_format(advertiser_address(Decoded(x)).v) = mac
Min(S) == CHOOSE i \in S : \A j \in S : i <= j

\* C16: in the result of btle_scan, total_packets is the number of capture
\* reads whose data decodes as a BLE packet; devices_found has exactly one
\* entry for each advertiser address among them, whose packet_count is the
\* number of decoded advertisements from that address and whose device_name
\* is the first name decoded for the address, or "Unknown".
C16_ScanResultReflectsStream ==
    \A t \in Tasks :
        Returned(t, "btle_scan") /\ result[t].kind = "Ok" =>
            LET reads == CaptureReads(xlog[t])
                json == result[t].json
                macs == { mac_format(advertiser_address(Decoded(reads[i])).v) :
                            i \in { k \in DOMAIN reads :
                                      /\ Decodes(reads[k])
                                      /\ advertiser_address(Decoded(reads[k])).some } }
            IN  /\ json.total_packets =
                       Cardinality({ i \in DOMAIN reads : Decodes(reads[i]) })
                /\ { e.mac_address : e \in json.devices_found } = macs
                /\ Cardinality(json.devices_found) = Cardinality(macs)
                /\ \A e \in json.devices_found :
                       LET mine == { i \in DOMAIN reads : From(reads[i], e.mac_address) }
                           named == { i \in mine : device_name(Decoded(reads[i])).some }
                       IN  /\ e.packet_count = Cardinality(mine)
                           /\ e.device_name =
                                  IF named = {} THEN Unknown
                                  ELSE device_name(Decoded(reads[Min(named)])).v

\* one well-formed ADV_IND of AA:BB:CC:DD:EE:FF named "Foo", then a timeout
C16_Witness ==
    \E t \in Tasks :
        /\ Returned(t, "btle_scan") /\ result[t].kind = "Ok"
        /\ LET reads == CaptureReads(xlog[t])
           IN  /\ Len(reads) = 2
               /\ reads[1].data = Header(2, 37, 196) \o BleFrame(0, AddrA \o NameFoo)
               /\ reads[2].res = "Timeout"
        /\ result[t].json.total_packets = 1
        /\ result[t].json.devices_found =
               { [mac_address |-> mac_format(AddrA), address_type |-> "public",
                  device_name |-> <<70, 111, 111>>, rssi_avg |-> -60,
                  packet_count |-> 1] }

\* the sum of the RSSI values of the advertisements of `mac` among `reads`
RECURSIVE RssiSum(_, _)
RssiSum(reads, mac) ==
    IF reads = <<>> THEN 0
    ELSE RssiSum(Tail(reads), mac)
         + (IF From(Head(reads), mac) THEN Decoded(Head(reads)).rssi ELSE 0)

Capturing(t) == pc[t] \in {"loop", "wait_read", "read", "wait_stop", "stop"}

\* C17: all through the capture loop the DeviceStats kept for each MAC
\* address has packet_count = the number of advertisements read from that
\* address in this scan, rssi_sum = the sum of their RSSI values and
\* rssi_avg = rssi_sum / packet_count truncated toward zero; an address has
\* an entry exactly when an advertisement from it was read.
C17_RssiStats ==
    \A t \in Tasks :
        Capturing(t) =>
            LET reads == CaptureReads(xlog[t])
                devices == scan[t].devices
                heard == { mac_format(a) : a \in {AddrA, AddrB} }
            IN  /\ DOMAIN devices = { mac \in heard :
                                       \E i \in DOMAIN reads : From(reads[i], mac) }
                /\ \A mac \in DOMAIN devices :
                       LET n == Cardinality({ i \in DOMAIN reads : From(reads[i], mac) })
                           sum == RssiSum(reads, mac)
                           q == IF sum >= 0 THEN sum \div n ELSE -((-sum) \div n)
                       IN  /\ devices[mac].packet_count = n
                           /\ devices[mac].rssi_sum = sum
                           /\ devices[mac].rssi_avg = q

\* three advertisements of one address with RSSI -60, -50, -40: average -50
C17_Witness ==
    \E t \in Tasks :
        /\ Capturing(t)
        /\ LET reads == CaptureReads(xlog[t])
           IN  /\ Len(reads) = 3
               /\ \A i \in 1..3 : From(reads[i], mac_format(AddrA))
               /\ <<Decoded(reads[1]).rssi, Decoded(reads[2]).rssi,
                     Decoded(reads[3]).rssi>> = <<-60, -50, -40>>
        /\ scan[t].devices[mac_format(AddrA)].packet_count = 3
        /\ scan[t].devices[mac_format(AddrA)].rssi_sum = -150
        /\ scan[t].devices[mac_format(AddrA)].rssi_avg = -50

\* two advertisements with RSSI -60 and -45: the average -52.5 is cut to -52
C17_WitnessTruncation ==
    \E t \in Tasks :
        /\ Capturing(t)
        /\ scan[t].devices # <<>>
        /\ mac_format(AddrA) \in DOMAIN scan[t].devices
        /\ scan[t].devices[mac_format(AddrA)].rssi_sum = -105
        /\ scan[t].devices[mac_format(AddrA)].rssi_avg = -52

\* C18: decoding the 14 bytes that encoding a header produced gives the
\* header back, field by field, and encoding the header decoded from a
\* 14-byte buffer gives the buffer back.
C18_HeaderRoundTrip ==
    /\ codec.op = "header_roundtrip" /\ codec.done =>
           /\ Len(codec.out.bytes) = 14
           /\ codec.out.header.ok
           /\ codec.out.header.pkt_type = codec.in.pkt_type
           /\ codec.out.header.status = codec.in.status
           /\ codec.out.header.channel = codec.in.channel
           /\ codec.out.header.clock = codec.in.clock
           /\ codec.out.header.rssi = codec.in.rssi
           /\ codec.out.header.reserved = codec.in.reserved
    /\ codec.op = "bytes_roundtrip" /\ codec.done =>
           /\ codec.out.header.ok
           /\ codec.out.bytes = codec.in

\* a header with a negative RSSI and a clock of four different bytes went
\* through encode and decode
C18_Witness ==
    /\ codec.op = "header_roundtrip" /\ codec.done
    /\ codec.in.rssi = -60 /\ codec.in.clock = U32(36489, 48854)
    /\ codec.out.bytes = <<2, 1, 37, 214, 190, 137, 142, 196, 1, 2, 3, 4, 5, 6>>
    /\ codec.out.header = codec.in

\* C19: BlePacket decoding succeeds exactly when the USB packet's type is
\* BLE, its payload has at least 10 bytes and at least 6 + length + 3 bytes,
\* length being payload[5]; otherwise it fails with InvalidPacket.  On
\* success the decoded payload is payload[6 .. 6+length], the CRC the three
\* bytes after it, and access_address the little-endian u32 of payload[0..4].
C19_BleDecode ==
    codec.op = "ble_decode" /\ codec.done =>
        LET pkt == codec.out.usb_pkt
            p == pkt.payload
            ble == codec.out.ble_pkt
            fits == /\ pkt.header.pkt_type = 2
                    /\ Len(p) >= 10
                    /\ Len(p) >= 6 + p[6] + 3
        IN  /\ pkt.ok /\ p = SubSeq(codec.in, 15, Len(codec.in))
            /\ ble.ok <=> fits
            /\ ~ble.ok => ble.err = "InvalidPacket"
            /\ ble.ok =>
                   /\ ble.length = p[6]
                   /\ Len(ble.payload) = ble.length
                   /\ \A i \in 1..ble.length : ble.payload[i] = p[6 + i]
                   /\ ble.crc = <<p[6 + ble.length + 1], p[6 + ble.length + 2],
                                  p[6 + ble.length + 3]>>
                   /\ ble.pdu_header = p[5]
                   /\ ble.access_address.lo = p[1] + 256 * p[2]
                   /\ ble.access_address.hi = p[3] + 256 * p[4]

\* a frame of exactly 6 + 7 + 3 payload bytes was decoded
C19_Witness ==
    /\ codec.op = "ble_decode" /\ codec.done
    /\ Len(codec.out.usb_pkt.payload) = 16
    /\ codec.out.ble_pkt.ok
    /\ codec.out.ble_pkt.length = 7
    /\ codec.out.ble_pkt.payload = <<1, 2, 3, 4, 5, 6, 7>>
    /\ codec.out.ble_pkt.crc = <<17, 34, 51>>
    /\ codec.out.ble_pkt.access_address = BLE_ADV_ACCESS_ADDRESS

AdData(payload) == IF Len(payload) >= 6 THEN SubSeq(payload, 7, Len(payload)) ELSE <<>>

\* The name the format's definition gives for advertising data `ad` from
\* byte `off` on: structures {length, type, data[length-1]} lie one after
\* another; the walk ends at fewer than two bytes, at a zero length and at a
\* structure that runs past the end; the first structure of type 0x08 or
\* 0x09 gives the name.
RECURSIVE FirstNameAD(_, _)
FirstNameAD(ad, off) ==
    IF off + 2 > Len(ad) THEN NoName
    ELSE IF ad[off + 1] = 0 THEN NoName
    ELSE IF off + 1 + ad[off + 1] > Len(ad) THEN NoName
    ELSE IF ad[off + 2] \in {8, 9} THEN Some(SubSeq(ad, off + 3, off + 1 + ad[off + 1]))
    ELSE FirstNameAD(ad, off + 1 + ad[off + 1])

\* the offset of the zero-length structure at which that walk ends, or the
\* length of `ad` when it ends otherwise
RECURSIVE ZeroLengthAt(_, _)
ZeroLengthAt(ad, off) ==
    IF off + 2 > Len(ad) THEN Len(ad)
    ELSE IF ad[off + 1] = 0 THEN off
    ELSE IF off + 1 + ad[off + 1] > Len(ad) THEN Len(ad)
    ELSE ZeroLengthAt(ad, off + 1 + ad[off + 1])

\* device_name reads no index at or beyond the end of the payload
NameWalkInBounds ==
    codec.op = "device_name" =>
        \A i \in codec.out.read : i >= 0 /\ 6 + i < Len(codec.in.payload)

\* device_name terminates: every pass moves the cursor forward by at least
\* two bytes, and a pass is made only with the cursor inside the data
NameWalkTerminates ==
    codec.op = "device_name" =>
        /\ 2 * codec.out.passes <= Len(AdData(codec.in.payload)) + 2
        /\ ~codec.done => 2 * codec.out.passes <= codec.out.offset

\* device_name reads nothing behind a zero-length structure and returns
\* None there
NameWalkStopsAtZero ==
    codec.op = "device_name" =>
        LET ad == AdData(codec.in.payload)
        IN  /\ \A i \in codec.out.read : i <= ZeroLengthAt(ad, 0)
            /\ codec.done /\ ZeroLengthAt(ad, 0) < Len(ad) /\ codec.out.offset = ZeroLengthAt(ad, 0)
                   => codec.out.ret = NoName

\* device_name returns the first name structure, or None when there is none
NameWalkReturnsFirst ==
    codec.op = "device_name" /\ codec.done =>
        codec.out.ret = IF Len(codec.in.payload) < 6 THEN NoName
                        ELSE FirstNameAD(AdData(codec.in.payload), 0)

\* C21: for every BLE payload, device_name terminates, reads no index at or
\* beyond the end of the payload, stops at a zero-length AD structure, and
\* returns the first AD structure, walking from payload offset 6, whose type
\* is 0x08 or 0x09, or None when there is none.
C21_DeviceName ==
    /\ NameWalkTerminates
    /\ NameWalkInBounds
    /\ NameWalkStopsAtZero
    /\ NameWalkReturnsFirst

\* Task t is inside a section of code that makes transfers: from the moment
\* lock().await gave it the guard to the completion of the transfers made
\* under that guard.  A transfer of t is in flight only then.
InFlight(t) == pc[t] \in {"locked", "read", "stop"}

\* C22: at any time at most one task is making transfers, that task holds
\* the device lock, and a task's transfer log grows only in a step taken
\* while it holds the lock.
C22_OneTransferInFlight ==
    /\ [](/\ \A t \in Tasks : InFlight(t) => lock = t
          /\ Cardinality({ t \in Tasks : InFlight(t) }) <= 1)
    /\ [][\A t \in Tasks :
             Len(xlog'[t]) > Len(xlog[t]) => lock = t /\ InFlight(t)]_vars

\* one task is in its capture loop, waiting for the lock for its next read,
\* while the other makes the transfer of a configure_channel under the lock
C22_Witness ==
    /\ pc[2] = "wait_read" /\ cmd[2].method = "btle_scan"
    /\ Len(xlog[2]) > SetupTransfers
    /\ pc[1] = "locked" /\ cmd[1].method = "configure_channel" /\ lock = 1
    /\ handle = "Some"

\* C23: a btle_scan holds the device lock in its capture loop exactly while
\* a bulk read is in progress, when no other task makes a transfer: the
\* step that ends the read has made at most that one transfer and leaves
\* the lock free, and the task does not hold the lock while it decodes,
\* sleeps, tests the loop condition or waits for the lock, nor during the
\* sleep after the setup.
C23_LockOnlyDuringRead ==
    /\ [](\A t \in Tasks :
            cmd[t].method = "btle_scan" =>
                /\ pc[t] \in {"sleep", "loop", "wait_read", "arm", "wait_stop"} => lock # t
                /\ pc[t] = "read" =>
                       lock = t /\ \A u \in Tasks \ {t} : ~InFlight(u))
    /\ [][\A t \in Tasks :
             pc[t] = "read" /\ pc'[t] # "read" =>
                 /\ pc'[t] = "arm"
                 /\ lock' = 0
                 /\ Len(xlog'[t]) <= Len(xlog[t]) + 1
                 /\ \A i \in (Len(xlog[t]) + 1)..Len(xlog'[t]) : IsBulkIn(xlog'[t][i])]_vars

\* between two reads of a scan, while the scan has the bytes of a read still
\* to decode, another task holds the lock for a device_status
C23_Witness ==
    /\ cmd[2].method = "btle_scan" /\ pc[2] = "arm" /\ scan[2].arm.res = "Ok"
    /\ Len(scan[2].arm.buffer) >= 14
    /\ lock = 1 /\ pc[1] = "locked" /\ cmd[1].method = "device_status"

\* the transfers btle_scan makes before it drops the lock, all succeeding,
\* for a scan of `channel`: endpoint, request, wValue and data of each
SetupOrder(channel) ==
    << <<"ctrl_out", CMD_SET_MODULATION, MOD_BT_LOW_ENERGY, <<>> >>,
       <<"ctrl_out", CMD_SET_CHANNEL, channel, <<>> >>,
       <<"ctrl_out", CMD_BTLE_SET_ACCESS_ADDRESS, 0, <<214, 190, 137, 142>> >>,
       <<"ctrl_out", CMD_BTLE_SNIFF_AA, 0, <<>> >> >>
IsStop(x) == x.ep = "ctrl_out" /\ x.req = CMD_STOP
IsSniff(x) == x.ep = "ctrl_out" /\ x.req = CMD_BTLE_SNIFF_AA

\* C24: the transfers of a btle_scan are, in this order: SET_MODULATION to
\* BLE, SET_CHANNEL, SET_ACCESS_ADDRESS with the bytes of 0x8E89BED6,
\* BTLE_SNIFF_AA, five bulk reads, the bulk reads of the capture loop, and
\* last STOP.  A setup transfer is made only after all before it succeeded;
\* the first nine transfers are made in one step under the lock; every
\* bulk read lies behind the sniff command and none behind STOP.
C24_TransferOrder ==
    /\ [](\A t \in Tasks :
            cmd[t].method = "btle_scan" =>
                LET log == xlog[t]
                    n == Len(log)
                    order == SetupOrder(scan_channel(cmd[t].params))
                IN  /\ \A i \in 1..n :
                           /\ i <= 4 => /\ <<log[i].ep, log[i].req, log[i].value,
                                               log[i].data>> = order[i]
                                         /\ \A k \in 1..(i - 1) : log[k].res = "Ok"
                           /\ i \in 5..9 => IsBulkIn(log[i])
                           /\ i > 9 => IsBulkIn(log[i]) \/ (IsStop(log[i]) /\ i = n)
                           /\ IsBulkIn(log[i]) => \E k \in 1..(i - 1) :
                                                     IsSniff(log[k]) /\ log[k].res = "Ok"
                           /\ IsStop(log[i]) => i = n /\ pc[t] = "idle"
                    /\ n \in 1..8 => pc[t] = "idle" /\ result[t].kind = "Err"
                    /\ pc[t] = "idle" /\ result[t].kind = "Ok" => n >= 10 /\ IsStop(log[n]))
    /\ [][\A t \in Tasks :
             cmd[t].method = "btle_scan" /\ xlog[t] = <<>> /\ Len(xlog'[t]) > 0 =>
                 /\ lock = t
                 /\ Len(xlog'[t]) = 9 \/ (Len(xlog'[t]) <= 4 /\ pc'[t] = "idle")]_vars

\* a scan of channel 37 that read one advertisement and then timed out has
\* returned after its twelve transfers
C24_Witness ==
    \E t \in Tasks :
        /\ Returned(t, "btle_scan") /\ result[t].kind = "Ok"
        /\ Len(xlog[t]) = 12
        /\ <<xlog[t][1].req, xlog[t][2].req, xlog[t][3].req, xlog[t][4].req>>
               = <<CMD_SET_MODULATION, CMD_SET_CHANNEL, CMD_BTLE_SET_ACCESS_ADDRESS,
                   CMD_BTLE_SNIFF_AA>>
        /\ xlog[t][2].value = 37
        /\ xlog[t][10].res = "Ok" /\ xlog[t][11].res = "Timeout"
        /\ xlog[t][12].req = CMD_STOP /\ xlog[t][12].res = "Ok"

\* what a scan has collected
Collected(st) == <<st.devices, st.total_packets, st.preview>>

\* C25: a capture read that timed out changes nothing the scan has
\* collected and does not end the loop: its arm goes back to the loop
\* condition, and the condition starts another read whenever the elapsed
\* time is below duration_sec.  A btle_scan returns a Timeout error only
\* for a timeout of one of its control transfers, never of a capture read.
C25_TimeoutRetried ==
    /\ [][\A t \in Tasks :
             /\ pc[t] = "read" /\ pc'[t] = "arm" /\ scan'[t].arm.res = "Timeout"
                   => Collected(scan'[t]) = Collected(scan[t]) /\ ~scan'[t].broke
             /\ pc[t] = "arm" /\ scan[t].arm.res = "Timeout" /\ pc'[t] # "arm"
                   => /\ pc'[t] = "loop"
                      /\ Collected(scan'[t]) = Collected(scan[t])
                      /\ ~scan'[t].broke
                      /\ result'[t] = NoResult
             /\ pc[t] = "loop" /\ pc'[t] # "loop"
                   => pc'[t] = IF scan[t].elapsed < scan_duration(cmd[t].params)
                               THEN "wait_read" ELSE "wait_stop"]_vars
    /\ [](\A t \in Tasks :
            /\ Returned(t, "btle_scan")
            /\ result[t].kind = "Err" /\ result[t].err = into("Timeout")
            => /\ xlog[t] # <<>>
               /\ xlog[t][Len(xlog[t])].ep = "ctrl_out"
               /\ xlog[t][Len(xlog[t])].res = "Timeout")

\* a scan whose first capture read timed out has read an advertisement
\* afterwards and returned it
C25_Witness ==
    \E t \in Tasks :
        /\ Returned(t, "btle_scan") /\ result[t].kind = "Ok"
        /\ LET reads == CaptureReads(xlog[t])
           IN  /\ Len(reads) >= 2
               /\ reads[1].res = "Timeout"
               /\ reads[2].res = "Ok" /\ Decodes(reads[2])
        /\ result[t].json.total_packets = 1

Addressed(reads) ==
    SelectSeq(reads, LAMBDA x : Decodes(x) /\ advertiser_address(Decoded(x)).some)

\* the line "<mac>: <name> (RSSI: <rssi>)" for the i-th of the addressed
\* reads `adv`: the name is the first one heard from that address so far
PreviewLine(adv, i) ==
    LET ble == Decoded(adv[i])
        mac == mac_format(advertiser_address(ble).v)
        named == { k \in 1..i : From(adv[k], mac) /\ device_name(Decoded(adv[k])).some }
    IN  [mac |-> mac,
         name |-> IF named = {} THEN Unknown
                  ELSE device_name(Decoded(adv[Min(named)])).v,
         rssi |-> ble.rssi]

\* the preview after `reads`: the lines of the first five addressed reads
FirstFive(reads) ==
    LET adv == Addressed(reads)
    IN  [i \in 1..(IF Len(adv) < 5 THEN Len(adv) ELSE 5) |-> PreviewLine(adv, i)]

\* C27: the preview never has more than 5 entries; between two reads of the
\* capture loop, and in the result, it is the lines of the first five
\* advertisements that yielded an advertiser address, in the order they
\* were read; once it has five entries no read changes it.
C27_PreviewFirstFive ==
    /\ [](\A t \in Tasks :
            /\ Len(scan[t].preview) <= 5
            /\ Capturing(t) => scan[t].preview = FirstFive(CaptureReads(xlog[t]))
            /\ Returned(t, "btle_scan") /\ result[t].kind = "Ok"
                  => result[t].json.preview = FirstFive(CaptureReads(xlog[t])))
    /\ [][\A t \in Tasks :
             pc[t] \in {"read", "arm"} /\ Len(scan[t].preview) = 5
                 => scan'[t].preview = scan[t].preview]_vars

\* a scan that read six advertisements returned the lines of the first
\* five of them, and not that of the sixth
C27_Witness ==
    /\ Returned(1, "btle_scan") /\ result[1].kind = "Ok"
    /\ LET adv == Addressed(CaptureReads(xlog[1]))
       IN  /\ Len(adv) = 6
           /\ From(adv[1], mac_format(AddrB))
           /\ \A i \in 2..5 : From(adv[i], mac_format(AddrA))
           /\ From(adv[6], mac_format(AddrB))
    /\ Len(result[1].json.preview) = 5
    /\ result[1].json.preview[1].name = Unknown
    /\ result[1].json.preview[5] =
           [mac |-> mac_format(AddrA), name |-> <<70, 111, 111>>, rssi |-> -60]

\* the log holds a sniff command that succeeded
Sniffing(log) == \E i \in DOMAIN log : IsSniff(log[i]) /\ log[i].res = "Ok"

\* C28: a btle_scan whose sniff command succeeded returns only from its call
\* of stop, success or error, and with the device open that call's STOP is
\* the last transfer of the scan and its only STOP.  A btle_scan that fails
\* validation makes no transfer; one that fails a setup transfer returns
\* that error at once: the failed transfer is its last, all before it
\* succeeded, and no STOP or other transfer undoes what they set.
C28_StopAfterSniff ==
    [][\A t \in Tasks :
         Ends(t) /\ cmd'[t].method = "btle_scan" =>
             LET log == xlog'[t]
                 n == Len(log)
                 stops == { i \in 1..n : IsStop(log[i]) }
             IN  IF Sniffing(log)
                 THEN /\ pc[t] = "stop"
                      /\ result'[t].kind \in {"Ok", "Err"}
                      /\ handle = "Some" => stops = {n}
                      /\ handle = "None" => /\ stops = {}
                                            /\ result'[t] = Err(into("NotOpen"))
                 ELSE /\ pc[t] \in {"idle", "locked"}
                      /\ result'[t].kind = "Err"
                      /\ stops = {}
                      /\ n <= 4
                      /\ pc[t] = "idle" => n = 0
                      /\ \A i \in 1..n : /\ log[i].ep = "ctrl_out"
                                          /\ log[i].res = "Ok" <=> i < n
                      /\ n > 0 => result'[t] = Err(into(log[n].res))]_vars

\* a scan whose capture loop was left by a read error has returned Ok with
\* STOP behind the failed read
C28_Witness ==
    /\ Returned(1, "btle_scan") /\ result[1].kind = "Ok"
    /\ LET log == xlog[1]
       IN  /\ Len(log) = 12
           /\ IsBulkIn(log[10]) /\ log[10].res = "Timeout"
           /\ IsBulkIn(log[11]) /\ log[11].res = "Disconnected"
           /\ IsStop(log[12]) /\ log[12].res = "Ok"

\* a scan whose SET_CHANNEL failed has returned with SET_MODULATION done
\* and nothing behind the failure
C28_WitnessSetup ==
    /\ Returned(1, "btle_scan") /\ result[1].kind = "Err"
    /\ LET log == xlog[1]
       IN  /\ Len(log) = 2
           /\ log[1].req = CMD_SET_MODULATION /\ log[1].res = "Ok"
           /\ log[2].req = CMD_SET_CHANNEL /\ log[2].res = "Disconnected"

\* the sum of packet_count over the entries of `devices` for `macs`
RECURSIVE CountSum(_, _)
CountSum(devices, macs) ==
    IF macs = {} THEN 0
    ELSE LET mac == CHOOSE m \in macs : TRUE
         IN  devices[mac].packet_count + CountSum(devices, macs \ {mac})

\* the bytes of a read that the loop body passes over: fewer than 14, not a
\* BLE packet, or a BLE packet that does not decode
PassedOver(buffer) ==
    \/ Len(buffer) < 14
    \/ ~is_ble(UsbPacket_from_bytes(buffer))
    \/ ~BlePacket_from_usb_packet(UsbPacket_from_bytes(buffer)).ok

\* C30: between two reads of a capture loop the packet_count of all
\* DeviceStats entries sum to at most total_packets, and to exactly
\* total_packets iff every BLE packet decoded so far had an advertiser
\* address; every entry has packet_count >= 1; and a read of fewer than 14
\* bytes, of a non-BLE packet or of an undecodable BLE packet leaves
\* total_packets, the DeviceStats and the preview as they were.
C30_CountsConsistent ==
    /\ [](\A t \in Tasks :
            Capturing(t) =>
                LET reads == CaptureReads(xlog[t])
                    devices == scan[t].devices
                    sum == CountSum(devices, DOMAIN devices)
                IN  /\ sum <= scan[t].total_packets
                    /\ sum = scan[t].total_packets
                          <=> \A i \in DOMAIN reads :
                                  Decodes(reads[i])
                                      => advertiser_address(Decoded(reads[i])).some
                    /\ \A mac \in DOMAIN devices : devices[mac].packet_count >= 1)
    /\ [][\A t \in Tasks :
             pc[t] = "arm" /\ pc'[t] # "arm"
             /\ scan[t].arm.res = "Ok" /\ PassedOver(scan[t].arm.buffer)
                 => Collected(scan'[t]) = Collected(scan[t])]_vars

\* a capture loop has read a frame without an advertiser address and an
\* advertisement of A: two packets, one of them counted for a device
C30_Witness ==
    /\ Capturing(1)
    /\ LET reads == CaptureReads(xlog[1])
       IN  /\ Len(reads) = 2
           /\ Decodes(reads[1]) /\ ~advertiser_address(Decoded(reads[1])).some
           /\ From(reads[2], mac_format(AddrA))
    /\ scan[1].total_packets = 2
    /\ CountSum(scan[1].devices, DOMAIN scan[1].devices) = 1

\* a capture loop has passed over a status packet
C30_WitnessPassedOver ==
    /\ Capturing(1)
    /\ LET reads == CaptureReads(xlog[1])
       IN  /\ Len(reads) = 1
           /\ reads[1].res = "Ok" /\ reads[1].data = Header(0, 37, 0)
    /\ scan[1].total_packets = 0 /\ scan[1].devices = << >>

\* task t's capture loop reads, in this step, a packet that it will count
CountsPacket(t) ==
    /\ pc[t] = "read" /\ pc'[t] = "arm"
    /\ scan'[t].arm.res = "Ok"
    /\ ~PassedOver(scan'[t].arm.buffer)

\* C29: every packet a btle_scan counts is read while the radio still
\* sniffs as that scan's setup left it: on the channel the scan reports,
\* in the sniffing mode the scan started, whatever the other caller does.
C29_CountedOnOwnChannel ==
    [][\A t \in Tasks : CountsPacket(t) => scan[t].radio = "own"]_vars

====
